---------------------------- MODULE Spec2Model ----------------------------
(***************************************************************************)
(* A model of jintaro's lazy, recursive variable resolution:               *)
(*   jintaro/jinja/recursive_mapping.py   RecursiveMapping                 *)
(*   jintaro/jinja/recursive_template.py  RecursiveTemplate, LazyContext   *)
(*   jintaro/jintaro.py                   Jintaro, JintaroJob              *)
(*   jintaro/config.py                    Config and its sources           *)
(*   jintaro/utils.py                     merge_dicts, check_file          *)
(*                                                                         *)
(* A text is a sequence of lexemes: the punctuation characters, the digits *)
(* and whole words, so that "{{b}}" is <<"{","{","b","}","}">>.  No word   *)
(* of the model is a concatenation of other lexemes, hence two texts are   *)
(* equal as Python strings exactly if their sequences are equal.           *)
(***************************************************************************)
EXTENDS Integers, Sequences, FiniteSets, TLC

VARIABLES
    maps,      \* heap of RecursiveMapping objects: [data, context]
    ctxs,      \* heap of LazyContext objects: [vars, parent, lazy_vars]
    calls,     \* <<map, key>> -> number of times the engine rendered that entry
    failed,    \* the <<map, key>> whose render ended in an error
    nops,      \* number of API calls made
    lastOp,    \* the last API call and its outcome
    cOrig, cRend, cVal, cOut,   \* inputs and results of the pure functions
    pc,        \* one JintaroJob: the position of run()
    job,       \* the arguments the job was constructed with
    fs,        \* the files the job touches: the template file and the output path
    rendered,  \* run()'s local rendered_template
    jlog       \* what the job did: hooks run, the error that ended it

mapVars  == <<maps, ctxs, calls, failed, nops, lastOp>>
pureVars == <<cOrig, cRend, cVal, cOut>>
jobVars  == <<pc, job, fs, rendered, jlog>>
vars     == <<maps, ctxs, calls, failed, nops, lastOp, cOrig, cRend, cVal, cOut,
              pc, job, fs, rendered, jlog>>

-----------------------------------------------------------------------------
(* Bounds of the model. *)

\* API calls per behaviour of the mapping specification.
MaxOps == 3
\* RecursiveMapping objects the heap may hold.
MaxMaps == 3
\* Nested renders after which the interpreter raises RecursionError; stands
\* for sys.getrecursionlimit() divided by the frames one nested render takes.
RecursionLimit == 5

-----------------------------------------------------------------------------
(* Python values. *)

StrV(s)    == [t |-> "str", s |-> s]
Unres(s)   == [t |-> "unres", s |-> s]       \* RecursiveMapping.UnresolvedString
IntV(n)    == [t |-> "int", n |-> n]
BoolV(b)   == [t |-> "bool", b |-> b]
NoneV      == [t |-> "none"]
ListV(l)   == [t |-> "list", l |-> l]
DictV(d)   == [t |-> "dict", d |-> d]        \* a plain dict
MapV(id)   == [t |-> "map", id |-> id]       \* a reference to a RecursiveMapping
UndefV(nm) == [t |-> "undef", name |-> nm]   \* StrictUndefined(name=nm)
GlobalV(nm) == [t |-> "global", name |-> nm] \* an object of the engine's globals

IsStr(v) == v.t \in {"str", "unres"}         \* isinstance(v, str)

EmptyDict == [x \in {} |-> NoneV]

Put(f, k, v) == [x \in (DOMAIN f) \cup {k} |-> IF x = k THEN v ELSE f[x]]

Max(a, b) == IF a >= b THEN a ELSE b

-----------------------------------------------------------------------------
(* Texts. *)

Digits == <<"0", "1", "2", "3", "4", "5", "6", "7", "8", "9">>

IsDigit(t) == \E i \in 1..10 : Digits[i] = t

DigitVal(t) == (CHOOSE i \in 1..10 : Digits[i] = t) - 1

AllDigits(s) == Len(s) > 0 /\ \A i \in 1..Len(s) : IsDigit(s[i])

RECURSIVE IntOf(_)
IntOf(s) ==
    IF Len(s) = 0 THEN 0
    ELSE 10 * IntOf(SubSeq(s, 1, Len(s) - 1)) + DigitVal(s[Len(s)])

RECURSIVE IntText(_)
IntText(n) ==
    IF n < 0 THEN <<"-">> \o IntText(0 - n)
    ELSE IF n < 10 THEN <<Digits[n + 1]>>
    ELSE IntText(n \div 10) \o <<Digits[(n % 10) + 1]>>

\* str.strip()
RECURSIVE Strip(_)
Strip(s) ==
    IF Len(s) = 0 THEN s
    ELSE IF s[1] = " " THEN Strip(Tail(s))
    ELSE IF s[Len(s)] = " " THEN Strip(SubSeq(s, 1, Len(s) - 1))
    ELSE s

\* str.lower() on one lexeme
Lower(t) ==
    CASE t \in {"True", "TRUE"} -> "true"
      [] t \in {"False", "FALSE"} -> "false"
      [] t \in {"Yes", "YES"} -> "yes"
      [] t \in {"No", "NO"} -> "no"
      [] t \in {"On", "ON"} -> "on"
      [] t \in {"Off", "OFF"} -> "off"
      [] t = "Y" -> "y"
      [] t = "N" -> "n"
      [] t = "T" -> "t"
      [] t = "F" -> "f"
      [] t = "None" -> "none"
      [] OTHER -> t

\* first position >= i at which `m` occurs in s, 0 if none (str.find)
RECURSIVE Find(_, _, _)
Find(m, s, i) ==
    IF i + Len(m) - 1 > Len(s) THEN 0
    ELSE IF SubSeq(s, i, i + Len(m) - 1) = m THEN i
    ELSE Find(m, s, i + 1)

\* `m in s` for strings
InStr(m, s) == Find(m, s, 1) # 0

\* s without its blanks
RECURSIVE NoBlanks(_)
NoBlanks(s) ==
    IF Len(s) = 0 THEN s
    ELSE IF s[1] = " " THEN NoBlanks(Tail(s))
    ELSE <<s[1]>> \o NoBlanks(Tail(s))


\* str.split(sep) for a one-lexeme separator
RECURSIVE Split(_, _)

\* s split at position i, where the first separator is
SplitAt(s, sep, i) ==
    IF i = 0 THEN <<s>>
    ELSE <<SubSeq(s, 1, i - 1)>> \o Split(SubSeq(s, i + 1, Len(s)), sep)

Split(s, sep) == SplitAt(s, sep, Find(<<sep>>, s, 1))

\* a fixed order of all names of the model, standing for dict insertion order
KeyOrder ==
    <<"__cwd", "input", "__input", "src", "__src", "row", "__row",
      "destination", "__destination", "dest", "__dest", "output", "__output",
      "template", "__template", "__pre_hook", "__post_hook", "__skip", "__force",
      "__delete", "a", "b", "c", "range", "n", "k", "x", "z", "a_b", "l", "", "r">>

\* the keys of dict d, in order
RECURSIVE KeysFrom(_, _)
KeysFrom(d, i) ==
    IF i > Len(KeyOrder) THEN <<>>
    ELSE IF KeyOrder[i] \in DOMAIN d THEN <<KeyOrder[i]>> \o KeysFrom(d, i + 1)
    ELSE KeysFrom(d, i + 1)

Keys(d) == KeysFrom(d, 1)

-----------------------------------------------------------------------------
(* RecursiveMapping._is_possibly_template *)

\* jinja2.defaults: BLOCK_START_STRING, VARIABLE_START_STRING, COMMENT_START_STRING
BLOCK_START_STRING    == <<"{", "%">>
VARIABLE_START_STRING == <<"{", "{">>
COMMENT_START_STRING  == <<"{", "#">>

Markers == <<BLOCK_START_STRING, VARIABLE_START_STRING, COMMENT_START_STRING>>

MarkersNoComment == <<BLOCK_START_STRING, VARIABLE_START_STRING>>

RECURSIVE MarkerLoop(_, _, _)
MarkerLoop(ms, s, i) ==
    IF i > Len(ms) THEN FALSE
    ELSE IF InStr(ms[i], s) THEN TRUE
    ELSE MarkerLoop(ms, s, i + 1)

\* a classifier that forgets the comment marker
IsPossiblyTemplateNoComment(data) ==
    IF IsStr(data) THEN MarkerLoop(MarkersNoComment, data.s, 1) ELSE FALSE

IsPossiblyTemplate(data) ==
    IF IsStr(data) THEN MarkerLoop(Markers, data.s, 1) ELSE FALSE

-----------------------------------------------------------------------------
(* ast.literal_eval and distutils.util.strtobool, on the texts of the model: *)
(* integers, None/True/False, single-quoted strings without quotes inside,   *)
(* lists of these, and dicts of these with string or list keys.              *)

\* an exception that no except clause on the way catches
RaiseV(e) == [t |-> "raise", err |-> e]

\* ValueError or SyntaxError
Fail == [ok |-> FALSE, v |-> NoneV]
Ok(v) == [ok |-> TRUE, v |-> v]

ValidInt(s) ==
    /\ AllDigits(s)
    /\ (Len(s) = 1 \/ s[1] # "0" \/ \A i \in 1..Len(s) : s[i] = "0")

Scalar(s) ==
    IF ValidInt(s) THEN Ok(IntV(IntOf(s)))
    ELSE IF Len(s) >= 2 /\ s[1] = "-" /\ ValidInt(Tail(s)) THEN Ok(IntV(0 - IntOf(Tail(s))))
    ELSE IF s = <<"None">> THEN Ok(NoneV)
    ELSE IF s = <<"True">> THEN Ok(BoolV(TRUE))
    ELSE IF s = <<"False">> THEN Ok(BoolV(FALSE))
    ELSE IF /\ Len(s) >= 2 /\ s[1] = "'" /\ s[Len(s)] = "'"
            /\ \A i \in 2..(Len(s) - 1) : s[i] # "'"
         THEN Ok(StrV(SubSeq(s, 2, Len(s) - 1)))
    ELSE Fail

\* the elements `parts` between the brackets: a trailing comma is allowed
ElementsOf(parts) ==
    IF Len(parts) > 1 /\ Strip(parts[Len(parts)]) = <<>>
    THEN SubSeq(parts, 1, Len(parts) - 1) ELSE parts

Elements(inner) == ElementsOf(Split(inner, ","))

\* the list of the scalars `parts`
ListOf(parts) ==
    IF \A i \in 1..Len(parts) : parts[i].ok
    THEN Ok(ListV([i \in 1..Len(parts) |-> parts[i].v]))
    ELSE Fail

Scalars(parts) == [i \in 1..Len(parts) |-> Scalar(Strip(parts[i]))]

ListInner(inner) ==
    IF inner = <<>> THEN Ok(ListV(<<>>)) ELSE ListOf(Scalars(Elements(inner)))

ListLiteral(s) == ListInner(Strip(SubSeq(s, 2, Len(s) - 1)))

\* the list display [e] as a dict key
ListKey(k) == Len(k) >= 2 /\ k[1] = "[" /\ k[Len(k)] = "]" /\ ListLiteral(k).ok

NoPair == [ok |-> FALSE, key |-> "", v |-> NoneV, unhashable |-> FALSE]

\* the pair of the scalars key and val; a list as the key cannot be hashed
PairOf(key, val, keytext) ==
    IF key.ok /\ val.ok /\ key.v.t = "str" /\ Len(key.v.s) = 1
    THEN [ok |-> TRUE, key |-> key.v.s[1], v |-> val.v, unhashable |-> FALSE]
    ELSE [NoPair EXCEPT !.unhashable = val.ok /\ ListKey(keytext)]

\* the pair p, whose colon is at i
PairAt(p, i) ==
    IF i = 0 THEN NoPair
    ELSE PairOf(Scalar(Strip(SubSeq(p, 1, i - 1))),
                Scalar(Strip(SubSeq(p, i + 1, Len(p)))),
                Strip(SubSeq(p, 1, i - 1)))

\* one "'key': value" pair
Pair(p) == PairAt(p, Find(<<":">>, p, 1))

\* the last pair with the key wins
LastOf(pairs, key) ==
    pairs[CHOOSE i \in 1..Len(pairs) :
             /\ pairs[i].key = key
             /\ \A j \in (i + 1)..Len(pairs) : pairs[j].key # key].v

\* dict(zip(keys, values)) raises TypeError at the first list key
DictOf(pairs) ==
    IF /\ \A i \in 1..Len(pairs) : pairs[i].ok \/ pairs[i].unhashable
       /\ \E i \in 1..Len(pairs) : pairs[i].unhashable
    THEN Ok(RaiseV("TypeError"))
    ELSE IF \A i \in 1..Len(pairs) : pairs[i].ok
    THEN Ok(DictV([key \in {pairs[i].key : i \in 1..Len(pairs)} |-> LastOf(pairs, key)]))
    ELSE Fail

Pairs(parts) == [i \in 1..Len(parts) |-> Pair(parts[i])]

DictInner(inner) ==
    IF inner = <<>> THEN Ok(DictV(EmptyDict)) ELSE DictOf(Pairs(Elements(inner)))

DictLiteral(s) == DictInner(Strip(SubSeq(s, 2, Len(s) - 1)))

\* literal_eval(s): ok = FALSE stands for ValueError or SyntaxError, the value
\* RaiseV("TypeError") for the TypeError that leaves _evaluate_string
LiteralEval(s) ==
    IF Len(s) >= 2 /\ s[1] = "[" /\ s[Len(s)] = "]" THEN ListLiteral(s)
    ELSE IF Len(s) >= 2 /\ s[1] = "{" /\ s[Len(s)] = "}" THEN DictLiteral(s)
    ELSE Scalar(s)

\* distutils.util.strtobool
TrueTokens  == {"y", "yes", "t", "true", "on", "1"}
FalseTokens == {"n", "no", "f", "false", "off", "0"}

\* strtobool(s): 1, 0 or ValueError
StrToBool(s) ==
    IF Len(s) = 1 /\ Lower(s[1]) \in TrueTokens THEN Ok(IntV(1))
    ELSE IF Len(s) = 1 /\ Lower(s[1]) \in FalseTokens THEN Ok(IntV(0))
    ELSE Fail

\* _evaluate_string, given the outcomes l of literal_eval and b of strtobool
LiteralFirst(l, b, string) ==
    IF l.ok THEN l.v
    ELSE IF b.ok THEN BoolV(b.v.n # 0)
    ELSE StrV(string)

\* RecursiveMapping._evaluate_string
EvaluateString(string) ==
    LiteralFirst(LiteralEval(Strip(string)), StrToBool(Strip(string)), string)

\* a coercion that is applied also to an inert template
CoerceAlways(value, rendered_string) == EvaluateString(rendered_string)

\* RecursiveMapping.__getitem__, lines 40-43: the value stored for an
\* unresolved entry `value` whose render gave `rendered_string`
Coerce(value, rendered_string) ==
    IF rendered_string # value.s THEN EvaluateString(rendered_string)
    ELSE StrV(value.s)

-----------------------------------------------------------------------------
(* The template engine (jinja2), on the templates of the model: data,      *)
(* {{ name }}, {{ integer }}, {{ name > integer }}, {# comment #},         *)
(* {% raw %}..{% endraw %} and {% set name = integer %}.  Every other tag  *)
(* is a TemplateSyntaxError.                                               *)

Punct == {"{", "}", "%", "#", "'", ",", ":", "[", "]", " ", "=", "<", ">", "-", ".", "(", ")"}

IsName(t) == t \notin Punct /\ ~IsDigit(t)

DataNode(s)    == [k |-> "data", s |-> s]
VarNode(nm)    == [k |-> "var", name |-> nm]
ConstNode(v)   == [k |-> "const", v |-> v]
SetNode(nm, v) == [k |-> "set", name |-> nm, v |-> v]
GtNode(nm, n)  == [k |-> "gt", name |-> nm, n |-> n]
CallAppend(nm, v) == [k |-> "append", name |-> nm, v |-> v]

SyntaxError == [ok |-> FALSE, nodes |-> <<>>]

\* the expression between {{ and }}, blanks removed
Expr(e) ==
    IF ValidInt(e) THEN Ok(ConstNode(IntV(IntOf(e))))
    ELSE IF Len(e) = 1 /\ e[1] \in {"true", "True"} THEN Ok(ConstNode(BoolV(TRUE)))
    ELSE IF Len(e) = 1 /\ e[1] \in {"false", "False"} THEN Ok(ConstNode(BoolV(FALSE)))
    ELSE IF Len(e) = 1 /\ e[1] \in {"none", "None"} THEN Ok(ConstNode(NoneV))
    ELSE IF Len(e) = 1 /\ IsName(e[1]) THEN Ok(VarNode(e[1]))
    ELSE IF Len(e) >= 3 /\ IsName(e[1]) /\ e[2] = ">" /\ ValidInt(SubSeq(e, 3, Len(e)))
         THEN Ok(GtNode(e[1], IntOf(SubSeq(e, 3, Len(e)))))
    ELSE IF /\ Len(e) >= 6 /\ IsName(e[1]) /\ SubSeq(e, 2, 4) = <<".", "append", "(">>
            /\ e[Len(e)] = ")" /\ ValidInt(SubSeq(e, 5, Len(e) - 1))
         THEN Ok(CallAppend(e[1], IntV(IntOf(SubSeq(e, 5, Len(e) - 1)))))
    ELSE Fail

Flush(data, nodes) == IF Len(data) = 0 THEN nodes ELSE Append(nodes, DataNode(data))

EndRaw == <<"{", "%", "endraw", "%", "}">>

RECURSIVE Lex(_, _, _, _)

\* {{ expression }}, closed at j
LexExpr(s, j, e, data, nodes) ==
    IF j = 0 \/ ~e.ok THEN SyntaxError
    ELSE Lex(s, j + 2, <<>>, Append(Flush(data, nodes), e.v))

\* {# comment #}, closed at j
LexComment(s, j, data, nodes) ==
    IF j = 0 THEN SyntaxError ELSE Lex(s, j + 2, data, nodes)

\* {% tag %}, closed at j; e is where the next {% endraw %} starts
LexTag(s, j, tag, e, data, nodes) ==
    IF j = 0 THEN SyntaxError
    ELSE IF tag = <<"raw">> THEN
        IF e = 0 THEN SyntaxError
        ELSE Lex(s, e + Len(EndRaw), data \o SubSeq(s, j + 2, e - 1), nodes)
    ELSE IF /\ Len(tag) >= 4 /\ tag[1] = "set" /\ IsName(tag[2]) /\ tag[3] = "="
            /\ ValidInt(SubSeq(tag, 4, Len(tag)))
         THEN Lex(s, j + 2, <<>>,
                  Append(Flush(data, nodes),
                         SetNode(tag[2], IntV(IntOf(SubSeq(tag, 4, Len(tag)))))))
    ELSE SyntaxError

\* the text between position i and the closing delimiter at j, blanks removed
Inside(s, i, j) == NoBlanks(SubSeq(s, i, j - 1))

LexExprAt(s, i, j, data, nodes) ==
    LexExpr(s, j, Expr(Inside(s, i, j)), data, nodes)

LexTagAt(s, i, j, data, nodes) ==
    LexTag(s, j, Inside(s, i, j), Find(EndRaw, s, j + 2), data, nodes)

Lex(s, i, data, nodes) ==
    IF i > Len(s) THEN [ok |-> TRUE, nodes |-> Flush(data, nodes)]
    ELSE IF s[i] = "{" /\ i < Len(s) /\ s[i + 1] = "{"
         THEN LexExprAt(s, i + 2, Find(<<"}", "}">>, s, i + 2), data, nodes)
    ELSE IF s[i] = "{" /\ i < Len(s) /\ s[i + 1] = "#"
         THEN LexComment(s, Find(<<"#", "}">>, s, i + 2), data, nodes)
    ELSE IF s[i] = "{" /\ i < Len(s) /\ s[i + 1] = "%"
         THEN LexTagAt(s, i + 2, Find(<<"%", "}">>, s, i + 2), data, nodes)
    ELSE Lex(s, i + 1, Append(data, s[i]), nodes)

\* Environment.from_string: the compiled template, or TemplateSyntaxError
Compile(source) == Lex(source, 1, <<>>, <<>>)

\* the names the compiled root function resolves when it is entered: the
\* names read and not assigned by the template, in order of first use
RECURSIVE NamesOf(_, _, _)
NamesOf(nodes, i, acc) ==
    IF i > Len(nodes) THEN acc
    ELSE IF /\ nodes[i].k \in {"var", "gt", "append"}
            /\ \A j \in 1..Len(acc) : acc[j] # nodes[i].name
            /\ \A j \in 1..Len(nodes) : nodes[j].k = "set" => nodes[j].name # nodes[i].name
         THEN NamesOf(nodes, i + 1, Append(acc, nodes[i].name))
    ELSE NamesOf(nodes, i + 1, acc)

-----------------------------------------------------------------------------
(* str() and repr() of a value; mp is the heap of mappings. *)

RECURSIVE StrOf(_, _), Repr(_, _), JoinList(_, _, _), JoinDict(_, _, _, _)

Repr(mp, v) ==
    IF IsStr(v) THEN <<"'">> \o v.s \o <<"'">>
    ELSE IF v.t = "map" THEN <<"<", "RecursiveMapping", ">">>
    ELSE StrOf(mp, v)

JoinList(mp, l, i) ==
    IF i > Len(l) THEN <<>>
    ELSE (IF i > 1 THEN <<",", " ">> ELSE <<>>) \o Repr(mp, l[i]) \o JoinList(mp, l, i + 1)

JoinDict(mp, d, ks, i) ==
    IF i > Len(ks) THEN <<>>
    ELSE (IF i > 1 THEN <<",", " ">> ELSE <<>>)
         \o <<"'", ks[i], "'", ":", " ">> \o Repr(mp, d[ks[i]])
         \o JoinDict(mp, d, ks, i + 1)

StrOf(mp, v) ==
    CASE IsStr(v)       -> v.s
      [] v.t = "int"    -> IntText(v.n)
      [] v.t = "bool"   -> IF v.b THEN <<"True">> ELSE <<"False">>
      [] v.t = "none"   -> <<"None">>
      [] v.t = "list"   -> <<"[">> \o JoinList(mp, v.l, 1) \o <<"]">>
      [] v.t = "dict"   -> <<"{">> \o JoinDict(mp, v.d, Keys(v.d), 1) \o <<"}">>
      [] v.t = "map"    -> <<"{">> \o JoinDict(mp, mp[v.id].data, Keys(mp[v.id].data), 1) \o <<"}">>
      [] v.t = "global" -> <<"<", "class", " ", "'", v.name, "'", ">">>

-----------------------------------------------------------------------------
(* The heap.  A store is [maps, ctxs, calls, failed, depth]: the mappings,  *)
(* the contexts, and three observations: how often the engine was invoked   *)
(* per entry, which entries' renders raised, and the deepest nested render  *)
(* of the running call.                                                     *)

\* the globals of JINJA_ENVIRONMENT (jinja2's defaults), which every template
\* of the environment gets as self.globals
Globals == "range" :> GlobalV("range")

\* jinja2.utils.missing
MissingV == [t |-> "missing"]

Cnt(c, m, key) == IF <<m, key>> \in DOMAIN c THEN c[<<m, key>>] ELSE 0

Res(st, val, err) == [st |-> st, val |-> val, err |-> err]

RECURSIVE SetItem(_, _, _, _), Update(_, _, _, _, _), NewMapping(_, _, _)

\* a write that drops every other entry of the mapping
SetItemClears(st, m, key, value) ==
    [st EXCEPT !.maps[m].data =
        key :> (IF IsPossiblyTemplate(value) THEN Unres(value.s) ELSE value)]

\* RecursiveMapping.__setitem__
SetItem(st, m, key, value) ==
    IF IsStr(value) THEN
        IF IsPossiblyTemplate(value)
        THEN [st EXCEPT !.maps[m].data = Put(@, key, Unres(value.s))]
        ELSE [st EXCEPT !.maps[m].data = Put(@, key, value)]
    ELSE IF value.t = "dict" THEN
        LET id == Len(st.maps) + 1
            st1 == NewMapping(st, value.d, st.maps[m].context)
        IN  [st1 EXCEPT !.maps[m].data = Put(@, key, MapV(id))]
    ELSE [st EXCEPT !.maps[m].data = Put(@, key, value)]

\* MutableMapping.update(vars): one __setitem__ per key
Update(st, m, vs, ks, i) ==
    IF i > Len(ks) THEN st
    ELSE Update(SetItem(st, m, ks[i], vs[ks[i]]), m, vs, ks, i + 1)

\* RecursiveMapping.__init__: the new mapping is maps[Len(st.maps) + 1]
NewMapping(st, vs, context) ==
    LET id == Len(st.maps) + 1
        st1 == [st EXCEPT !.maps = Append(@, [data |-> EmptyDict, context |-> context])]
    IN  Update(st1, id, vs, Keys(vs), 1)

\* LazyContext(environment, parent, lazy_vars, name, blocks): ctxs[Len + 1]
NewContext(st, parent, lazy_vars) ==
    [st EXCEPT !.ctxs = Append(@, [vars |-> EmptyDict, parent |-> parent,
                                   lazy_vars |-> lazy_vars])]

\* render_recursive, lines 34-35: the mapping's context is made on first use
EnsureContext(st, m) ==
    IF st.maps[m].context = 0
    THEN [NewContext(st, Globals, m) EXCEPT !.maps[m].context = Len(st.ctxs) + 1]
    ELSE st

\* the resolved value is not stored
MemoizeNot(st, m, key, value) == st

\* __getitem__, line 44: self.__data[key] = value
Memoize(st, m, key, value) == [st EXCEPT !.maps[m].data = Put(@, key, value)]

\* the source text is stored as the value of an entry whose render raised
RenderFailedStores(st, m, key) ==
    [st EXCEPT !.failed = @ \cup {<<m, key>>},
               !.maps[m].data = Put(@, key, StrV(st.maps[m].data[key].s))]

\* an exception leaves __getitem__ at lines 38-39: nothing is stored
RenderFailed(st, m, key) == [st EXCEPT !.failed = @ \cup {<<m, key>>}]

RECURSIVE GetItem(_, _, _, _), ResolveAll(_, _, _, _, _, _), Emit(_, _, _, _, _, _)

\* the outcome of `key in mapping`, given that of self[key]
Found(r) ==
    IF r.err = "KeyError" THEN Res(r.st, FALSE, "")
    ELSE IF r.err # "" THEN Res(r.st, FALSE, r.err)
    ELSE Res(r.st, TRUE, "")

\* Mapping.__contains__: self[key] is read, KeyError means absent
Contains(st, m, key, d) == Found(GetItem(st, m, key, d))

\* resolve_or_missing, lines 29-31, after `key in self.lazy_vars` gave `has`
ReadIfHas(has, lazy_vars, key, d) ==
    IF has.err # "" THEN has
    ELSE IF has.val THEN GetItem(has.st, lazy_vars, key, d)
    ELSE Res(has.st, MissingV, "")

\* the lazy mapping is asked before the context's vars and its parent
ResolveLazyFirst(st, c, key, d) ==
    IF key \in DOMAIN st.maps[st.ctxs[c].lazy_vars].data
    THEN GetItem(st, st.ctxs[c].lazy_vars, key, d)
    ELSE IF key \in DOMAIN st.ctxs[c].vars THEN Res(st, st.ctxs[c].vars[key], "")
    ELSE IF key \in DOMAIN st.ctxs[c].parent THEN Res(st, st.ctxs[c].parent[key], "")
    ELSE Res(st, MissingV, "")

\* LazyContext.resolve_or_missing
ResolveOrMissing(st, c, key, d) ==
    IF key \in DOMAIN st.ctxs[c].vars THEN Res(st, st.ctxs[c].vars[key], "")
    ELSE IF key \in DOMAIN st.ctxs[c].parent THEN Res(st, st.ctxs[c].parent[key], "")
    ELSE ReadIfHas(Contains(st, st.ctxs[c].lazy_vars, key, d), st.ctxs[c].lazy_vars, key, d)

\* the name names[i] resolved to r: a missing name becomes StrictUndefined
ResolveNext(r, c, names, i, env, d) ==
    IF r.err # "" THEN [st |-> r.st, env |-> env, err |-> r.err]
    ELSE ResolveAll(r.st, c, names, i + 1,
                    Put(env, names[i], IF r.val = MissingV THEN UndefV(names[i]) ELSE r.val),
                    d)

\* the root render function enters its frame: every name of the template is
\* resolved, in order
ResolveAll(st, c, names, i, env, d) ==
    IF i > Len(names) THEN [st |-> st, env |-> env, err |-> ""]
    ELSE ResolveNext(ResolveOrMissing(st, c, names[i], d), c, names, i, env, d)

\* list.append(v) on the list object that the variable nm names: the object
\* is the one that every mapping holding the variable refers to
ListAppend(st, nm, v) ==
    [st EXCEPT !.maps =
        [m \in DOMAIN st.maps |->
            IF nm \in DOMAIN st.maps[m].data /\ st.maps[m].data[nm].t = "list"
            THEN [st.maps[m] EXCEPT !.data[nm] = ListV(Append(@.l, v))]
            ELSE st.maps[m]]]

\* an undefined name is rendered as the empty string
EmitLenient(st, c, nodes, i, env, out) ==
    IF i > Len(nodes) THEN [st |-> st, out |-> out, err |-> ""]
    ELSE CASE nodes[i].k = "data"  -> Emit(st, c, nodes, i + 1, env, out \o nodes[i].s)
           [] nodes[i].k = "const" ->
                Emit(st, c, nodes, i + 1, env, out \o StrOf(st.maps, nodes[i].v))
           [] nodes[i].k = "set"   ->
                Emit([st EXCEPT !.ctxs[c].vars = Put(@, nodes[i].name, nodes[i].v)],
                     c, nodes, i + 1, Put(env, nodes[i].name, nodes[i].v), out)
           [] nodes[i].k = "var"   ->
                IF env[nodes[i].name].t = "undef"
                THEN Emit(st, c, nodes, i + 1, env, out)
                ELSE Emit(st, c, nodes, i + 1, env,
                          out \o StrOf(st.maps, env[nodes[i].name]))
           [] nodes[i].k = "gt"    ->
                IF env[nodes[i].name].t # "int"
                THEN [st |-> st, out |-> out, err |-> "TypeError"]
                ELSE Emit(st, c, nodes, i + 1, env,
                          out \o StrOf(st.maps, BoolV(env[nodes[i].name].n > nodes[i].n)))

\* the root render function yields its output; str() of a StrictUndefined raises
Emit(st, c, nodes, i, env, out) ==
    IF i > Len(nodes) THEN [st |-> st, out |-> out, err |-> ""]
    ELSE CASE nodes[i].k = "data"  -> Emit(st, c, nodes, i + 1, env, out \o nodes[i].s)
           [] nodes[i].k = "const" ->
                Emit(st, c, nodes, i + 1, env, out \o StrOf(st.maps, nodes[i].v))
           [] nodes[i].k = "set"   ->
                Emit([st EXCEPT !.ctxs[c].vars = Put(@, nodes[i].name, nodes[i].v)],
                     c, nodes, i + 1, Put(env, nodes[i].name, nodes[i].v), out)
           [] nodes[i].k = "var"   ->
                IF env[nodes[i].name].t = "undef"
                THEN [st |-> st, out |-> out, err |-> "UndefinedError"]
                ELSE Emit(st, c, nodes, i + 1, env,
                          out \o StrOf(st.maps, env[nodes[i].name]))
           [] nodes[i].k = "gt"    ->
                IF env[nodes[i].name].t = "undef"
                THEN [st |-> st, out |-> out, err |-> "UndefinedError"]
                ELSE IF env[nodes[i].name].t # "int"
                THEN [st |-> st, out |-> out, err |-> "TypeError"]
                ELSE Emit(st, c, nodes, i + 1, env,
                          out \o StrOf(st.maps, BoolV(env[nodes[i].name].n > nodes[i].n)))
           [] nodes[i].k = "append" ->
                IF env[nodes[i].name].t # "list"
                THEN [st |-> st, out |-> out, err |-> "UndefinedError"]
                ELSE Emit(ListAppend(st, nodes[i].name, nodes[i].v), c, nodes, i + 1,
                          Put(env, nodes[i].name,
                              ListV(Append(env[nodes[i].name].l, nodes[i].v))),
                          out \o StrOf(st.maps, NoneV))

\* the output, once the names are resolved with outcome r
EmitAll(r, c, nodes) ==
    IF r.err # "" THEN [st |-> r.st, out |-> <<>>, err |-> r.err]
    ELSE Emit(r.st, c, nodes, 1, r.env, <<>>)

\* concat(self.root_render_func(context))
RootRender(st, c, nodes, d) ==
    EmitAll(ResolveAll(st, c, NamesOf(nodes, 1, <<>>), 1, EmptyDict, d), c, nodes)

\* render_recursive, lines 36-39, with the mapping's context
RenderWith(st, m, nodes, d) == RootRender(st, st.maps[m].context, nodes, d)

\* RecursiveTemplate.render_recursive(vars)
RenderRecursive(st, m, nodes, d) == RenderWith(EnsureContext(st, m), m, nodes, d)

\* the engine is invoked on an entry, as nested render number d
CountCall(st, m, key, d) ==
    [st EXCEPT !.calls = Put(@, <<m, key>>, Cnt(st.calls, m, key) + 1),
               !.depth = Max(@, d)]

\* the compiled template c is rendered, or from_string raised
RenderCompiled(st, m, c, d) ==
    IF ~c.ok THEN [st |-> st, out |-> <<>>, err |-> "TemplateSyntaxError"]
    ELSE RenderRecursive(st, m, c.nodes, d)

\* lines 38-39: JINJA_ENVIRONMENT.from_string(value).render_recursive(self),
\* as nested render number d; the interpreter bounds the nesting
RenderString(st, m, key, d) ==
    IF d > RecursionLimit THEN [st |-> st, out |-> <<>>, err |-> "RecursionError"]
    ELSE RenderCompiled(CountCall(st, m, key, d), m, Compile(st.maps[m].data[key].s), d)

\* the value of an unresolved entry stored and returned without coercion test
StoreResultNoCoercion(r, value, m, key) ==
    IF r.err # "" THEN Res(RenderFailed(r.st, m, key), NoneV, r.err)
    ELSE Res(Memoize(r.st, m, key, StrV(r.out)), StrV(r.out), "")

\* __getitem__, lines 44-45, unless the coercion raised
StoreValue(st, v, m, key) ==
    IF v.t = "raise" THEN Res(RenderFailed(st, m, key), NoneV, v.err)
    ELSE Res(Memoize(st, m, key, v), v, "")
\* the text emitted before the render raised is stored as the entry's value
StoreResultPartial(r, value, m, key) ==
    IF r.err # "" THEN Res(Memoize(RenderFailed(r.st, m, key), m, key, StrV(r.out)), NoneV, r.err)
    ELSE StoreValue(r.st, Coerce(value, r.out), m, key)

\* __getitem__, lines 40-45, after the render of entry `value` gave r
StoreResult(r, value, m, key) ==
    IF r.err # "" THEN Res(RenderFailed(r.st, m, key), NoneV, r.err)
    ELSE StoreValue(r.st, Coerce(value, r.out), m, key)

\* every stored string is handed to the engine, not only the unresolved ones
GetItemRendersStrings(st, m, key, d) ==
    IF key \notin DOMAIN st.maps[m].data THEN Res(st, UndefV(key), "")
    ELSE IF st.maps[m].data[key].t \in {"unres", "str"}
         THEN StoreResult(RenderString(st, m, key, d + 1), st.maps[m].data[key], m, key)
    ELSE Res(st, st.maps[m].data[key], "")

\* a read that inserts None for a key without an entry, as a defaultdict does
GetItemInsertsNone(st, m, key, d) ==
    IF key \notin DOMAIN st.maps[m].data THEN Res(Memoize(st, m, key, NoneV), NoneV, "")
    ELSE IF st.maps[m].data[key].t = "unres"
    THEN StoreResult(RenderString(st, m, key, d + 1), st.maps[m].data[key], m, key)
    ELSE Res(st, st.maps[m].data[key], "")

\* RecursiveMapping.__getitem__, called while d renders are running
GetItem(st, m, key, d) ==
    IF key \notin DOMAIN st.maps[m].data THEN Res(st, UndefV(key), "")
    ELSE IF st.maps[m].data[key].t = "unres"
    THEN StoreResult(RenderString(st, m, key, d + 1), st.maps[m].data[key], m, key)
    ELSE Res(st, st.maps[m].data[key], "")

-----------------------------------------------------------------------------
(* Specification Spec: one RecursiveMapping, made from a dict, and the calls *)
(* of its interface: mapping[key], key in mapping, mapping[key] = value.     *)

V(nm) == <<"{", "{", nm, "}", "}">>

RawOf(src) == <<"{", "%", "raw", "%", "}">> \o src \o EndRaw

SetX == <<"{", "%", "set", " ", "x", "=", "1", "%", "}">>

\* the dicts a mapping is made from
InitDicts ==
    { "a" :> StrV(V("b")) @@ "b" :> StrV(<<"5">>),
      "a" :> StrV(V("b")) @@ "b" :> StrV(V("a")),
      "a" :> StrV(V("a")) @@ "b" :> IntV(3),
      "a" :> StrV(V("z") \o V("b")) @@ "b" :> StrV(V("c") \o <<"0">>) @@ "c" :> IntV(1),
      "a" :> StrV(SetX) @@ "x" :> StrV(<<"q">>) @@ "b" :> StrV(V("x"))
          @@ "c" :> StrV(V("range")) @@ "range" :> StrV(V("1")),
      "a" :> IntV(5) @@ "b" :> BoolV(TRUE) @@ "c" :> ListV(<<StrV(V("a"))>>),
      "n" :> DictV("k" :> StrV(V("c"))) @@ "c" :> StrV(<<"y">>) @@ "a" :> StrV(V("n")),
      "a" :> StrV(RawOf(V("a"))) @@ "b" :> StrV(V("a")) @@ "c" :> StrV(<<"{", "#", "x", "#", "}">>) }

\* the values written by mapping[key] = value
WriteValues ==
    { StrV(<<"5">>), StrV(V("c")), StrV(<<"{", "{", "b">>), IntV(7), DictV("k" :> StrV(V("k"))) }

WriteKeys == {"a", "b"}

\* a key that no dict of the model holds
MissingKey == "z"

St0 == [maps |-> <<>>, ctxs |-> <<>>, calls |-> EmptyDict, failed |-> {}, depth |-> 0]

Store == [maps |-> maps, ctxs |-> ctxs, calls |-> calls, failed |-> failed, depth |-> 0]

Commit(st) ==
    /\ maps' = st.maps
    /\ ctxs' = st.ctxs
    /\ calls' = st.calls
    /\ failed' = st.failed

NoOp ==
    [op |-> "new", m |-> 0, key |-> "", was |-> NoneV, val |-> NoneV, err |-> "", depth |-> 0]

\* no function has been applied yet
NoOut == [f |-> "none", v |-> NoneV]

PureIdle == cOrig = <<>> /\ cRend = <<>> /\ cVal = NoneV /\ cOut = NoOut

JobIdle == pc = "none" /\ job = "none" /\ fs = "none" /\ rendered = <<>> /\ jlog = <<>>

\* RecursiveMapping(vars) as JintaroJob._create_context makes it: no context
Init ==
    /\ \E d \in InitDicts : maps = NewMapping(St0, d, 0).maps
    /\ ctxs = <<>>
    /\ calls = EmptyDict
    /\ failed = {}
    /\ nops = 0
    /\ lastOp = NoOp
    /\ PureIdle
    /\ JobIdle


\* the entry of key in mapping m of heap mp, MissingV if there is none
Entry(mp, m, key) == IF key \in DOMAIN mp[m].data THEN mp[m].data[key] ELSE MissingV

\* the keys a caller reads: the mapping's own and the missing one
ReadKeys(m) == (DOMAIN maps[m].data) \cup {MissingKey}

\* the call `op` on mapping m returns with outcome r
Done(r, op, m, key) ==
    /\ Commit(r.st)
    /\ lastOp' = [op |-> op, m |-> m, key |-> key, was |-> Entry(maps, m, key),
                  val |-> r.val, err |-> r.err, depth |-> r.st.depth]

\* value = mapping[key]
Read(m, key) ==
    /\ nops < MaxOps
    /\ Done(GetItem(Store, m, key, 0), "read", m, key)
    /\ nops' = nops + 1
    /\ UNCHANGED <<pureVars, jobVars>>

\* key in mapping
InTest(m, key) ==
    /\ nops < MaxOps
    /\ Done(Contains(Store, m, key, 0), "in", m, key)
    /\ nops' = nops + 1
    /\ UNCHANGED <<pureVars, jobVars>>

\* a new entry starts with no render counted
Forget(st, m, key) ==
    [st EXCEPT !.calls = Put(@, <<m, key>>, 0), !.failed = @ \ {<<m, key>>}]

\* mapping[key] = value, on the top-level mapping
Write(key, value) ==
    /\ nops < MaxOps
    /\ value.t = "dict" => Len(maps) < MaxMaps
    /\ Commit(Forget(SetItem(Store, 1, key, value), 1, key))
    /\ lastOp' = [op |-> "write", m |-> 1, key |-> key, was |-> Entry(maps, 1, key),
                  val |-> value, err |-> "", depth |-> 0]
    /\ nops' = nops + 1
    /\ UNCHANGED <<pureVars, jobVars>>

Next ==
    \/ \E m \in 1..Len(maps) : \E key \in ReadKeys(m) : Read(m, key)
    \/ \E m \in 1..Len(maps) : \E key \in ReadKeys(m) : InTest(m, key)
    \/ \E key \in WriteKeys : \E value \in WriteValues : Write(key, value)

Spec == Init /\ [][Next]_vars


-----------------------------------------------------------------------------
(* Specification SpecPure: the static methods of RecursiveMapping and the   *)
(* store of one entry, applied to texts and values drawn from bounded sets. *)

\* the rendered texts and template sources the functions are applied to
PureTexts ==
    { <<>>, <<"5">>, <<" ", "5", " ">>, <<"0", "7">>, <<"-", "5">>, <<"1">>, <<"0">>,
      <<"true">>, <<"True">>, <<"yes">>, <<"No">>, <<"on">>, <<"off">>,
      <<"y">>, <<"t">>, <<"N">>, <<"f">>, <<" ", "TRUE">>,
      <<"None">>, <<"'", "a", "'">>, <<"[", "1", ",", " ", "2", "]">>,
      <<"{", "'", "a", "'", ":", " ", "1", "}">>,
      <<"{", "[", "1", "]", ":", " ", "2", "}">>,
      <<"[", "1">>, <<"hello">>, <<"maybe">>, V("b"), <<"{", "#", "x", "#", "}", "1">> }

\* the values written to a mapping
PureValues ==
    { StrV(<<"hello">>), StrV(<<>>), StrV(V("b")), StrV(<<"x", " ", "{", "%">>),
      StrV(<<"{", "#", "x", "#", "}">>), StrV(<<"a", "{", "b", "}">>),
      StrV(<<"}", "}", "{">>), StrV(<<"{", " ", "{">>),
      IntV(7), BoolV(TRUE), NoneV, ListV(<<StrV(V("b"))>>),
      DictV("k" :> StrV(V("b")) @@ "n" :> StrV(<<"5">>)) }

\* a mapping that holds the unresolved entry a
OneEntry(source) ==
    [maps |-> <<[data |-> "a" :> Unres(source), context |-> 0]>>, ctxs |-> <<>>,
     calls |-> EmptyDict, failed |-> {}, depth |-> 0]

InitPure ==
    /\ cOrig \in PureTexts
    /\ cRend \in PureTexts
    /\ cVal \in PureValues
    /\ cOut = NoOut
    /\ maps = <<>> /\ ctxs = <<>> /\ calls = EmptyDict /\ failed = {}
    /\ nops = 0 /\ lastOp = NoOp
    /\ JobIdle

\* RecursiveMapping._evaluate_string(cRend)
EvaluateStep ==
    /\ cOut = NoOut
    /\ cOut' = [f |-> "evaluate", v |-> EvaluateString(cRend)]
    /\ UNCHANGED <<mapVars, cOrig, cRend, cVal, jobVars>>

\* what StoreResult returned: the value, or the exception raised
Outcome(r) == IF r.err # "" THEN RaiseV(r.err) ELSE r.val

\* __getitem__, lines 40-45, on the entry a = cOrig whose render gave cRend
CoerceStep ==
    /\ cOut = NoOut
    /\ cOut' = [f |-> "coerce",
                v |-> Outcome(StoreResult([st |-> OneEntry(cOrig), out |-> cRend, err |-> ""],
                                          Unres(cOrig), 1, "a"))]
    /\ maps' = StoreResult([st |-> OneEntry(cOrig), out |-> cRend, err |-> ""],
                           Unres(cOrig), 1, "a").st.maps
    /\ UNCHANGED <<ctxs, calls, failed, nops, lastOp, cOrig, cRend, cVal, jobVars>>

\* RecursiveMapping._is_possibly_template(cVal)
ClassifyStep ==
    /\ cOut = NoOut
    /\ cOut' = [f |-> "classify", v |-> BoolV(IsPossiblyTemplate(cVal))]
    /\ UNCHANGED <<mapVars, cOrig, cRend, cVal, jobVars>>

\* mapping["a"] = cVal on an empty mapping
SetItemStep ==
    /\ cOut = NoOut
    /\ cOut' = [f |-> "setitem", v |-> cVal]
    /\ maps' = SetItem(NewMapping(St0, EmptyDict, 0), 1, "a", cVal).maps
    /\ UNCHANGED <<ctxs, calls, failed, nops, lastOp, cOrig, cRend, cVal, jobVars>>

NextPure == EvaluateStep \/ CoerceStep \/ ClassifyStep \/ SetItemStep

SpecPure == InitPure /\ [][NextPure]_vars

-----------------------------------------------------------------------------
(* Specification SpecJob: one JintaroJob, from its construction through the *)
(* steps of run(): skip rule, pre hook, render, write, post hook, delete.   *)

\* bool(v)
Truthy(mp, v) ==
    CASE IsStr(v)      -> Len(v.s) > 0
      [] v.t = "int"   -> v.n # 0
      [] v.t = "bool"  -> v.b
      [] v.t = "none"  -> FALSE
      [] v.t = "list"  -> Len(v.l) > 0
      [] v.t = "dict"  -> DOMAIN v.d # {}
      [] v.t = "map"   -> DOMAIN mp[v.id].data # {}
      [] OTHER         -> TRUE

\* x.update(y) on dicts
DictUpdate(x, y) ==
    [k \in (DOMAIN x) \cup DOMAIN y |-> IF k \in DOMAIN y THEN y[k] ELSE x[k]]

\* JintaroJob._create_context: job_vars, updated with the row's variables
JobVars(j) ==
    DictUpdate(
        "__cwd" :> StrV(<<"cwd">>)
        @@ "input" :> StrV(<<"in">>) @@ "__input" :> StrV(<<"in">>)
        @@ "src" :> StrV(<<"in">>) @@ "__src" :> StrV(<<"in">>)
        @@ "row" :> IntV(j.row) @@ "__row" :> IntV(j.row)
        @@ "destination" :> StrV(j.output) @@ "__destination" :> StrV(j.output)
        @@ "dest" :> StrV(j.output) @@ "__dest" :> StrV(j.output)
        @@ "output" :> StrV(j.output) @@ "__output" :> StrV(j.output)
        @@ "template" :> StrV(<<"tpl">>) @@ "__template" :> StrV(<<"tpl">>)
        @@ "__pre_hook" :> j.pre_hook @@ "__post_hook" :> j.post_hook
        @@ "__skip" :> j.skip @@ "__force" :> BoolV(j.force)
        @@ "__delete" :> BoolV(j.delete),
        j.variables)

\* the outcome of one step of run(): the heap, where run() goes on, the
\* exception raised, the events to log
Go(r, to) ==
    IF r.err # "" THEN [st |-> r.st, to |-> "failed", err |-> r.err, ev |-> <<>>]
    ELSE [st |-> r.st, to |-> to, err |-> "", ev |-> <<>>]

Raise(st, e) == [st |-> st, to |-> "failed", err |-> e, ev |-> <<>>]

\* Path(value): only a string makes a path
PathOf(r) ==
    IF r.err # "" THEN r
    ELSE IF ~IsStr(r.val) THEN Res(r.st, NoneV, "TypeError")
    ELSE r

\* self.row + 1
RowPlusOne(r) ==
    IF r.err # "" THEN r
    ELSE IF r.val.t \notin {"int", "bool"} THEN Res(r.st, NoneV, "TypeError")
    ELSE r

\* the arguments of run()'s log line: self.row + 1, then self.input
LogInput(r, to) ==
    IF r.err # "" THEN Go(r, to)
    ELSE Go(PathOf(GetItem(r.st, 1, "__input", 0)), to)

LogLine(st, to) == LogInput(RowPlusOne(GetItem(st, 1, "__row", 0)), to)

\* a skip rule that skips on every truthy value
SkipRuleTruthy(r) ==
    IF r.err # "" THEN Go(r, "pre")
    ELSE IF ~Truthy(r.st.maps, r.val) THEN LogLine(r.st, "pre")
    ELSE LogLine(r.st, "skipped")

\* run(), lines 337-348, after self.skip gave r
SkipRule(r) ==
    IF r.err # "" THEN Go(r, "pre")
    ELSE IF ~Truthy(r.st.maps, r.val) THEN LogLine(r.st, "pre")
    ELSE IF IsStr(r.val) /\ ~StrToBool(r.val.s).ok THEN Raise(r.st, "OutputError")
    ELSE IF IsStr(r.val) /\ StrToBool(r.val.s).v.n = 0 THEN LogLine(r.st, "pre")
    ELSE LogLine(r.st, "skipped")

\* _run_hook, lines 331-333: the hook ended with return code rc
HookEnded(o, command, rc, to) ==
    IF rc = 0 THEN [st |-> o.st, to |-> to, err |-> "", ev |-> <<[hook |-> command, rc |-> rc]>>]
    ELSE IF o.err # ""
         THEN [st |-> o.st, to |-> "failed", err |-> o.err,
               ev |-> <<[hook |-> command, rc |-> rc]>>]
    ELSE [st |-> o.st, to |-> "failed", err |-> "HookRunError",
          ev |-> <<[hook |-> command, rc |-> rc]>>]

\* _run_hook, lines 318-330: Popen(command, cwd=self.cwd) after self.cwd gave c
HookRun(c, command, rc, to) ==
    IF c.err # "" THEN Go(c, to)
    ELSE IF ~IsStr(command) \/ ~IsStr(c.val) THEN Raise(c.st, "TypeError")
    ELSE IF rc = 0 THEN HookEnded(c, command, rc, to)
    ELSE HookEnded(PathOf(GetItem(c.st, 1, "__output", 0)), command, rc, to)

\* _run_hook(command, hook_type), after the hook property gave r
RunHook(r, rc, to) ==
    IF r.err # "" THEN Go(r, to)
    ELSE IF ~Truthy(r.st.maps, r.val) THEN Go(r, to)
    ELSE HookRun(GetItem(r.st, 1, "__cwd", 0), r.val, rc, to)

RECURSIVE ReadAll(_, _, _, _, _)

\* dict(context) took the value r of keys[i]
ReadAllNext(r, m, keys, i, acc) ==
    IF r.err # "" THEN Res(r.st, acc, r.err)
    ELSE ReadAll(r.st, m, keys, i + 1, Put(acc, keys[i], r.val))

\* dict(context) in Template.render: every key of the mapping is read
ReadAll(st, m, keys, i, acc) ==
    IF i > Len(keys) THEN Res(st, acc, "")
    ELSE ReadAllNext(GetItem(st, m, keys[i], 0), m, keys, i, acc)

\* RecursiveTemplate.new_context(vars): a new mapping made from a copy of
\* vars, and a new context on it
NewRenderContext(st, vs) ==
    [NewContext(NewMapping(st, vs, 0), Globals, Len(st.maps) + 1)
        EXCEPT !.maps[Len(st.maps) + 1].context = Len(st.ctxs) + 1]

\* Template.render(context), after dict(context) gave r
RenderIn(r, nodes) ==
    IF r.err # "" THEN [st |-> r.st, out |-> <<>>, err |-> r.err]
    ELSE RootRender(NewRenderContext(r.st, r.val), Len(r.st.ctxs) + 1, nodes, 0)

\* render_template(template, context)
RenderTemplate(st, template) ==
    IF template = <<>> THEN [st |-> st, out |-> template, err |-> ""]
    ELSE IF ~Compile(template).ok
         THEN [st |-> st, out |-> <<>>, err |-> "TemplateSyntaxError"]
    ELSE RenderIn(ReadAll(st, 1, Keys(st.maps[1].data), 1, EmptyDict),
                  Compile(template).nodes)

\* the template file was not read: exception e was raised before
NotRead(st, e) == [st |-> st, out |-> <<>>, err |-> e, ev |-> <<>>]

\* the template file was read, and render_template had the outcome r
WasRead(r) == [st |-> r.st, out |-> r.out, err |-> r.err, ev |-> <<[read |-> "template"]>>]

\* read_file(self.template), after self.template gave t, then render_template
ReadAndRender(t, file) ==
    IF t.err # "" THEN NotRead(t.st, t.err)
    ELSE IF ~file.exists THEN NotRead(t.st, "FileNotFoundError")
    ELSE WasRead(RenderTemplate(t.st, file.text))

\* run(), lines 361-362, after self.force gave f
ForceGiven(f) ==
    IF f.err # "" THEN f
    ELSE IF ~Truthy(f.st.maps, f.val) THEN Res(f.st, NoneV, "OutputError")
    ELSE f

\* run(), lines 358-362, after self.output gave o: may the file be written
MayWrite(o, out) ==
    IF o.err # "" THEN o
    ELSE IF out = "absent" THEN o
    ELSE IF out = "dir" THEN Res(o.st, NoneV, "OutputError")
    ELSE ForceGiven(GetItem(o.st, 1, "__force", 0))

\* self.output.unlink(), after self.output gave o
Unlink(o) == IF o.err # "" THEN Res(o.st, FALSE, o.err) ELSE Res(o.st, TRUE, "")

\* run(), lines 370-371, after self.delete gave r
DeleteRule(r) ==
    IF r.err # "" THEN Res(r.st, FALSE, r.err)
    ELSE IF ~Truthy(r.st.maps, r.val) THEN Res(r.st, FALSE, "")
    ELSE Unlink(PathOf(GetItem(r.st, 1, "__output", 0)))

\* the variables of a row, merged with the extra variables
JobVariables ==
    { "a" :> StrV(<<"5">>) @@ "b" :> StrV(V("a")),
      "a" :> StrV(<<"5">>) @@ "c" :> StrV(V("z")),
      "a" :> StrV(<<"5">>) @@ "n" :> DictV("k" :> StrV(V("a"))) }

\* the contents of the template file
TemplateFiles ==
    { <<>>, <<"hello">>, V("b") \o <<"-">> \o V("row"), V("c"), <<"{", "{", "a">> }

\* the skip rule {{ row > 3 }}
SkipRow == StrV(<<"{", "{", " ", "row", " ", ">", " ", "3", " ", "}", "}">>)

\* the jobs that are run
Jobs ==
    { j \in [ variables : JobVariables,
              row       : {0, 2, 5},
              output    : {<<"out">>, <<"out">> \o V("a"), V("a")},
              skip      : {NoneV, StrV(V("a")), StrV(<<"no">>), StrV(<<"maybe">>), SkipRow},
              pre_hook  : {NoneV, StrV(<<"echo", " ">> \o V("a"))},
              post_hook : {NoneV, StrV(<<"echo">>)},
              force     : BOOLEAN,
              delete    : BOOLEAN ] :
          /\ j.row # 0 <=> j.skip = SkipRow
          /\ j.skip = SkipRow => j.output = <<"out">>
          /\ j.output = V("a") => j.skip = NoneV /\ j.post_hook = NoneV /\ ~j.delete }

\* the file system a job finds: the template file, the directory of the
\* output path, and what is at the output path
Files ==
    { [tpl |-> [exists |-> TRUE, text |-> t], parent |-> "dir", out |-> o,
        text |-> IF o = "file" THEN <<"old">> ELSE <<>>] :
          t \in TemplateFiles, o \in {"absent", "file", "dir"} }
    \cup { [tpl |-> [exists |-> TRUE, text |-> t], parent |-> "absent", out |-> "absent",
            text |-> <<>>] : t \in TemplateFiles }
    \cup {[tpl |-> [exists |-> FALSE, text |-> <<>>], parent |-> "dir", out |-> "absent",
           text |-> <<>>]}

\* JintaroJob(...): the job holds the mapping made from its variables
InitJob ==
    /\ job \in Jobs
    /\ fs \in Files
    /\ maps = NewMapping(St0, JobVars(job), 0).maps
    /\ ctxs = <<>> /\ calls = EmptyDict /\ failed = {}
    /\ nops = 0 /\ lastOp = NoOp
    /\ PureIdle
    /\ pc = "skip" /\ rendered = <<>> /\ jlog = <<>>

\* run() goes on at o.to, or ends with the exception o.err
Step(o) ==
    /\ Commit(o.st)
    /\ pc' = o.to
    /\ jlog' = IF o.err # "" THEN jlog \o o.ev \o <<[error |-> o.err]>> ELSE jlog \o o.ev

\* the files f, with the lists of the configuration's extra variables as the
\* job left them: the job's mapping (mapping 1 of heap mp) holds the very
\* list objects of the extra variables
Shared(f, mp) ==
    IF "config" \notin DOMAIN f THEN f
    ELSE [f EXCEPT !.config.vars =
            [nm \in DOMAIN @ |->
                IF @[nm].t = "list" /\ mp[1].data[nm].t = "list" THEN mp[1].data[nm]
                ELSE @[nm]]]

\* a step of run() that touches no file
StepOnly(o) ==
    /\ Step(o)
    /\ fs' = Shared(fs, o.st.maps)

\* run(), lines 337-348
JobSkip ==
    /\ pc = "skip"
    /\ StepOnly(SkipRule(GetItem(Store, 1, "__skip", 0)))
    /\ UNCHANGED <<nops, lastOp, pureVars, job, rendered>>

\* a pre hook that also runs for a skipped job
JobPreHookAlways(rc) ==
    /\ pc \in {"pre", "skipped"}
    /\ StepOnly(RunHook(GetItem(Store, 1, "__pre_hook", 0), rc, "render"))
    /\ UNCHANGED <<nops, lastOp, pureVars, job, rendered>>

\* run(), line 351: the pre hook, which ends with return code rc
JobPreHook(rc) ==
    /\ pc = "pre"
    /\ StepOnly(RunHook(GetItem(Store, 1, "__pre_hook", 0), rc, "render"))
    /\ UNCHANGED <<nops, lastOp, pureVars, job, rendered>>

\* the rendered template r is kept
Rendered(r) ==
    /\ Step([st |-> r.st, to |-> IF r.err # "" THEN "failed" ELSE "write",
             err |-> r.err, ev |-> r.ev])
    /\ rendered' = r.out
    /\ fs' = Shared(fs, r.st.maps)

\* a render that does not wait for the pre hook
JobRenderEarly ==
    /\ pc \in {"pre", "render"}
    /\ Rendered(ReadAndRender(PathOf(GetItem(Store, 1, "__template", 0)), fs.tpl))
    /\ UNCHANGED <<nops, lastOp, pureVars, job>>

\* run(), lines 354-355
JobRender ==
    /\ pc = "render"
    /\ Rendered(ReadAndRender(PathOf(GetItem(Store, 1, "__template", 0)), fs.tpl))
    /\ UNCHANGED <<nops, lastOp, pureVars, job>>

\* self.output.parent.mkdir(parents=True, exist_ok=True) and write_text, unless
\* o holds an exception
Written(o) ==
    /\ Step(Go(o, "post"))
    /\ fs' = Shared(IF o.err = ""
                     THEN [fs EXCEPT !.parent = "dir", !.out = "file", !.text = rendered]
                     ELSE fs,
                     o.st.maps)

\* run(), lines 358-364
JobWrite ==
    /\ pc = "write"
    /\ Written(MayWrite(PathOf(GetItem(Store, 1, "__output", 0)), fs.out))
    /\ UNCHANGED <<nops, lastOp, pureVars, job, rendered>>

\* run(), line 367: the post hook, which ends with return code rc
JobPostHook(rc) ==
    /\ pc = "post"
    /\ StepOnly(RunHook(GetItem(Store, 1, "__post_hook", 0), rc, "delete"))
    /\ UNCHANGED <<nops, lastOp, pureVars, job, rendered>>

\* the output file is removed if d.val
Deleted(d) ==
    /\ Step(Go(d, "done"))
    /\ fs' = Shared(IF d.err = "" /\ d.val
                     THEN [fs EXCEPT !.out = "absent", !.text = <<>>]
                     ELSE fs,
                     d.st.maps)
\* a delete that does not wait for the post hook
JobDeleteEarly ==
    /\ pc \in {"post", "delete"}
    /\ Deleted(DeleteRule(GetItem(Store, 1, "__delete", 0)))
    /\ UNCHANGED <<nops, lastOp, pureVars, job, rendered>>

\* run(), lines 370-371
JobDelete ==
    /\ pc = "delete"
    /\ Deleted(DeleteRule(GetItem(Store, 1, "__delete", 0)))
    /\ UNCHANGED <<nops, lastOp, pureVars, job, rendered>>

NextJob ==
    \/ JobSkip
    \/ \E rc \in {0, 1} : JobPreHook(rc)
    \/ JobRender
    \/ JobWrite
    \/ \E rc \in {0, 1} : JobPostHook(rc)
    \/ JobDelete

SpecJob == InitJob /\ [][NextJob]_vars

-----------------------------------------------------------------------------
(* Specification SpecRaw: one JintaroJob whose variables resolve to text    *)
(* that holds a start marker, from construction through the steps of run(). *)

\* the variables of a row: r resolves to the text {{a}}, to 5, or to q
RawVariables ==
    { "a" :> StrV(<<"5">>) @@ "r" :> StrV(RawOf(V("a"))),
      "a" :> StrV(<<"5">>) @@ "r" :> StrV(V("a")),
      "a" :> StrV(<<"5">>) @@ "r" :> StrV(RawOf(<<"q">>)) }

\* the contents of the template file
RawTemplates == { V("r"), <<"x">> \o V("r"), V("a") }

\* the jobs that are run
RawJobs ==
    [ variables : RawVariables,
      row       : {0},
      output    : {<<"out">>, <<"out">> \o V("r")},
      skip      : {NoneV, StrV(V("r"))},
      pre_hook  : {NoneV, StrV(V("r")), StrV(<<"echo", " ">> \o V("r"))},
      post_hook : {NoneV, StrV(V("r"))},
      force     : {TRUE},
      delete    : BOOLEAN ]

\* the file system a job finds
RawFiles ==
    { [tpl |-> [exists |-> TRUE, text |-> t], parent |-> "dir", out |-> o,
        text |-> IF o = "file" THEN <<"old">> ELSE <<>>] :
          t \in RawTemplates, o \in {"absent", "file"} }

\* JintaroJob(...): the job holds the mapping made from its variables
InitRaw ==
    /\ job \in RawJobs
    /\ fs \in RawFiles
    /\ maps = NewMapping(St0, JobVars(job), 0).maps
    /\ ctxs = <<>> /\ calls = EmptyDict /\ failed = {}
    /\ nops = 0 /\ lastOp = NoOp
    /\ PureIdle
    /\ pc = "skip" /\ rendered = <<>> /\ jlog = <<>>

SpecRaw == InitRaw /\ [][NextJob]_vars

-----------------------------------------------------------------------------
(* Specification SpecGenerate: Jintaro._generate_jobs on one input sheet:   *)
(* each data row is turned into the variables of a JintaroJob.  A header is *)
(* a sequence of characters.                                                *)

\* str.lower() on one character
LowerChar(ch) ==
    CASE ch = "A" -> "a"
      [] ch = "B" -> "b"
      [] ch = "R" -> "r"
      [] OTHER -> ch

\* the character is in the class [0-9a-zA-Z_]
IsWordChar(ch) ==
    ch \in {"a", "b", "c", "o", "p", "r", "t", "u", "w", "A", "B", "R", "_",
            "0", "1", "2", "3", "4", "5", "6", "7", "8", "9"}

\* re.sub('[^0-9a-zA-Z_]', '_', header)
SubInvalid(h) == [i \in 1..Len(h) |-> IF IsWordChar(h[i]) THEN h[i] ELSE "_"]

\* re.sub('^[^a-zA-Z_]+', '', header)
RECURSIVE StripLead(_)
StripLead(h) ==
    IF Len(h) = 0 THEN h
    ELSE IF IsWordChar(h[1]) /\ ~IsDigit(h[1]) THEN h
    ELSE StripLead(Tail(h))

\* the characters joined to a name
RECURSIVE JoinChars(_)
JoinChars(h) == IF Len(h) = 0 THEN "" ELSE h[1] \o JoinChars(Tail(h))
\* every run of invalid characters becomes a single underscore
RECURSIVE SubRuns(_)
SubRuns(h) ==
    IF Len(h) = 0 THEN h
    ELSE IF IsWordChar(h[1]) THEN <<h[1]>> \o SubRuns(Tail(h))
    ELSE IF Len(h) > 1 /\ ~IsWordChar(h[2]) THEN SubRuns(Tail(h))
    ELSE <<"_">> \o SubRuns(Tail(h))

\* a normalisation that replaces runs, not characters
ProcessHeaderRuns(header) ==
    JoinChars(StripLead(SubRuns([i \in 1..Len(header) |-> LowerChar(header[i])])))

\* process_header(header)
ProcessHeader(header) ==
    JoinChars(StripLead(SubInvalid([i \in 1..Len(header) |-> LowerChar(header[i])])))

\* {headers[i]: val for i, val in enumerate(row_data)}, from column i on
RECURSIVE RowVariables(_, _, _, _)
RowVariables(colnames, row_data, i, acc) ==
    IF i > Len(row_data) THEN acc
    ELSE RowVariables(colnames, row_data, i + 1,
                      Put(acc, ProcessHeader(colnames[i]), row_data[i]))

\* merge_dicts raised: dict(x, **y) with a y that is no mapping
MergeRaised == [ok |-> FALSE, v |-> RaiseV("TypeError")]

\* the keys that merge_dicts merges recursively
MergedKeys(x, y) == { key \in (DOMAIN x) \cap DOMAIN y : x[key].t = "dict" }

RECURSIVE merge_dicts(_, _)

\* merge_dicts(x[key], y[key]) on the values xv and yv
MergeValue(xv, yv) ==
    IF yv = NoneV THEN Ok(xv)
    ELSE IF yv.t # "dict" THEN MergeRaised
    ELSE IF ~merge_dicts(xv.d, yv.d).ok THEN MergeRaised
    ELSE Ok(DictV(merge_dicts(xv.d, yv.d).v))

\* utils.merge_dicts(x, y) on two dicts
merge_dicts(x, y) ==
    IF \E key \in MergedKeys(x, y) : ~MergeValue(x[key], y[key]).ok THEN MergeRaised
    ELSE Ok([key \in (DOMAIN x) \cup DOMAIN y |->
                IF key \in MergedKeys(x, y) THEN MergeValue(x[key], y[key]).v
                ELSE IF key \in DOMAIN y THEN y[key]
                ELSE x[key]])

\* the extra variables of the configuration
ExtraVariables ==
    { EmptyDict,
      "a" :> StrV(<<"x">>) @@ "c" :> IntV(9),
      "output" :> StrV(<<"ex">>) @@ "b" :> StrV(V("a")),
      "row" :> IntV(3) @@ "__row" :> StrV(<<"m">>),
      "n" :> DictV("k" :> StrV(V("a"))),
      "a" :> DictV("k" :> IntV(1)) }

\* the sheets of the input file: the column names and the data rows
Sheets ==
    { [colnames |-> <<<<"a">>>>, rows |-> <<<<StrV(<<"5">>)>>, <<IntV(7)>>>>],
      [colnames |-> <<<<"A">>, <<"b">>>>, rows |-> <<<<IntV(1), StrV(V("a"))>>>>],
      [colnames |-> <<<<"1", "a">>, <<"a", " ", "b">>>>,
       rows |-> <<<<IntV(1), IntV(2)>>, <<IntV(3), IntV(4)>>>>],
      [colnames |-> <<<<"a">>, <<"A">>>>, rows |-> <<<<IntV(1), IntV(2)>>>>],
      [colnames |-> <<<<"o", "u", "t", "p", "u", "t">>, <<"R", "o", "w">>>>,
       rows |-> <<<<StrV(<<"p">>), IntV(8)>>, <<StrV(<<"q">>), IntV(9)>>>>],
      [colnames |-> <<<<"_", "_", "r", "o", "w">>, <<"b">>>>,
       rows |-> <<<<IntV(4), StrV(<<"y">>)>>>>],
      [colnames |-> <<<<"c">>>>, rows |-> <<<<StrV(V("a"))>>, <<StrV(<<"5">>)>>>>],
      [colnames |-> <<>>, rows |-> <<>>],
      [colnames |-> <<<<"b">>, <<>>>>, rows |-> <<<<IntV(1), IntV(2)>>, <<IntV(3), IntV(4)>>>>],
      [colnames |-> <<<<"b">>, <<"c">>>>,
       rows |-> <<<<IntV(1), IntV(2)>>, <<IntV(3), IntV(4)>>, <<IntV(5), IntV(6)>>>>] }

\* JintaroJob(...) for row i with the merged variables
NewJob(variables, i) ==
    [variables |-> variables, row |-> i, output |-> <<"out">>, skip |-> NoneV,
     pre_hook |-> NoneV, post_hook |-> NoneV, force |-> FALSE, delete |-> FALSE]
\* the longest header that is normalised
MaxHeader == 3

\* the headers that are normalised: all texts of these characters
HeaderChars == {"a", "B", "1", " ", "-", "_"}

Headers == UNION { [1..n -> HeaderChars] : n \in 0..MaxHeader }

InitHeader ==
    /\ cOrig \in Headers
    /\ cRend = <<>> /\ cVal = NoneV /\ cOut = NoOut
    /\ maps = <<>> /\ ctxs = <<>> /\ calls = EmptyDict /\ failed = {}
    /\ nops = 0 /\ lastOp = NoOp
    /\ JobIdle

\* process_header(cOrig)
HeaderStep ==
    /\ cOut.f = "none"
    /\ cOut' = [f |-> "header", v |-> ProcessHeader(cOrig)]
    /\ UNCHANGED <<mapVars, cOrig, cRend, cVal, jobVars>>

NextHeader == HeaderStep

SpecHeader == InitHeader /\ [][NextHeader]_vars
\* the values of the dicts that are merged
MergeValues ==
    { IntV(1), StrV(<<"s">>), NoneV, DictV("k" :> IntV(1)),
      DictV("k" :> IntV(2) @@ "n" :> DictV("k" :> IntV(3))),
      DictV("n" :> IntV(4)) }

\* the dicts that are merged: any of the keys a and b, with these values
MergeInputs ==
    UNION { [ks -> MergeValues] : ks \in SUBSET {"a", "b"} }

InitMerge ==
    /\ cOrig \in MergeInputs
    /\ cRend \in MergeInputs
    /\ cVal = NoneV /\ cOut = NoOut
    /\ maps = <<>> /\ ctxs = <<>> /\ calls = EmptyDict /\ failed = {}
    /\ nops = 0 /\ lastOp = NoOp
    /\ JobIdle

\* what merge_dicts returned, as a value, or the exception it raised
Merged(r) == IF r.ok THEN DictV(r.v) ELSE r.v

\* merge_dicts(cOrig, cRend)
MergeStep ==
    /\ cOut.f = "none"
    /\ cOut' = [f |-> "merge", v |-> Merged(merge_dicts(cOrig, cRend))]
    /\ UNCHANGED <<mapVars, cOrig, cRend, cVal, jobVars>>

NextMerge == MergeStep

SpecMerge == InitMerge /\ [][NextMerge]_vars
\* the longest text that is parsed as a header position
MaxPosition == 3

\* str.split(","), part by part; part is the part being read
RECURSIVE SplitComma(_, _)
SplitComma(s, part) ==
    IF Len(s) = 0 THEN <<part>>
    ELSE IF s[1] = "," THEN <<part>> \o SplitComma(Tail(s), <<>>)
    ELSE SplitComma(Tail(s), Append(part, s[1]))

\* int(val[i]) if len(val[i]) > 0 else 0, on a text of digits
IntOrZero(part) == IF Len(part) > 0 THEN IntOf(part) ELSE 0

\* lines 302-307: the string was split into parts
RowColumnOf(parts) ==
    ListV(<<IntV(IF Len(parts) > 0 THEN IntOrZero(parts[1]) ELSE 0),
            IntV(IF Len(parts) > 1 THEN IntOrZero(parts[1]) ELSE 0)>>)

\* ConfigValidation.val_to_row_column(val)
val_to_row_column(val) ==
    IF val.t = "str" THEN RowColumnOf(SplitComma(val.s, <<>>))
    ELSE IF val.t = "int" THEN ListV(<<val, IntV(0)>>)
    ELSE IF val.t = "list"
         THEN ListV(<<IF Len(val.l) > 0 THEN val.l[1] ELSE IntV(0),
                      IF Len(val.l) > 1 THEN val.l[2] ELSE IntV(0)>>)
    ELSE NoneV

\* the values given as header position: texts of digits and commas, numbers,
\* and lists of up to two numbers
PositionValues ==
    { StrV(s) : s \in UNION { [1..n -> {"0", "1", "2", ","}] : n \in 0..MaxPosition } }
    \cup { IntV(n) : n \in 0..2 }
    \cup { ListV(l) : l \in UNION { [1..n -> {IntV(0), IntV(1), IntV(2)}] : n \in 0..2 } }

InitPosition ==
    /\ cVal \in PositionValues
    /\ cOrig = <<>> /\ cRend = <<>> /\ cOut = NoOut
    /\ maps = <<>> /\ ctxs = <<>> /\ calls = EmptyDict /\ failed = {}
    /\ nops = 0 /\ lastOp = NoOp
    /\ JobIdle

\* val_to_row_column(cVal)
PositionStep ==
    /\ cOut.f = "none"
    /\ cOut' = [f |-> "position", v |-> val_to_row_column(cVal)]
    /\ UNCHANGED <<mapVars, cOrig, cRend, cVal, jobVars>>

NextPosition == PositionStep

SpecPosition == InitPosition /\ [][NextPosition]_vars

InitGenerate ==
    /\ fs \in [input : Sheets, vars : ExtraVariables]
    /\ maps = <<>> /\ ctxs = <<>> /\ calls = EmptyDict /\ failed = {}
    /\ nops = 0 /\ lastOp = NoOp
    /\ PureIdle
    /\ pc = "generate" /\ job = "none" /\ rendered = <<>> /\ jlog = <<>>

\* the job of row i is yielded with the merged variables, or merge_dicts raised
Yield(merged, i) ==
    IF ~merged.ok
    THEN /\ pc' = "failed"
         /\ jlog' = <<[error |-> merged.v.err]>>
         /\ UNCHANGED <<job, maps, nops>>
    ELSE /\ job' = NewJob(merged.v, i)
         /\ maps' = NewMapping(St0, JobVars(NewJob(merged.v, i)), 0).maps
         /\ nops' = i + 1
         /\ UNCHANGED <<pc, jlog>>

\* a header check that also rejects a column whose name normalises to ""
HeaderMissingOrEmpty(colnames) ==
    \/ Len(colnames) = 0
    \/ \E i \in 1..Len(colnames) : ProcessHeader(colnames[i]) = ""

\* lines 209-210: not sheet.colnames
HeaderMissing(colnames) == Len(colnames) = 0

\* _generate_jobs: the sheet is rejected for its missing header, or the next
\* data row is turned into a job
GenerateJob ==
    /\ pc = "generate"
    /\ IF nops = 0 /\ HeaderMissing(fs.input.colnames)
       THEN /\ pc' = "failed"
            /\ jlog' = <<[error |-> "InputListError"]>>
            /\ UNCHANGED <<job, maps, nops>>
       ELSE /\ nops < Len(fs.input.rows)
            /\ Yield(merge_dicts(fs.vars,
                                 RowVariables(fs.input.colnames, fs.input.rows[nops + 1], 1,
                                              EmptyDict)),
                     nops)
    /\ UNCHANGED <<ctxs, calls, failed, lastOp, pureVars, fs, rendered>>

NextGenerate == GenerateJob

SpecGenerate == InitGenerate /\ [][NextGenerate]_vars

-----------------------------------------------------------------------------
(* Specification SpecRun: Jintaro.run.  The jobs come from the generator    *)
(* _generate_jobs, one at a time, and each is run by the steps of           *)
(* JintaroJob.run before the generator is resumed.  fs holds the input      *)
(* sheets, the validated configuration, and the files the jobs read and     *)
(* write; jlog is the log of the whole run; nops counts the jobs yielded.   *)

\* the skip rule {{ row > 0 }}
SkipAfterFirst == StrV(<<"{", "{", " ", "row", " ", ">", " ", "0", " ", "}", "}">>)

\* the configurations of a run
RunConfigs ==
    { c \in [ vars              : { EmptyDict, "a" :> DictV("k" :> IntV(1)),
                                    "n" :> DictV("k" :> StrV(V("a"))),
                                    "l" :> ListV(<<IntV(1)>>) },
              skip              : {NoneV, SkipAfterFirst},
              post_hook         : {NoneV, StrV(<<"echo">>)},
              force             : BOOLEAN,
              delete            : BOOLEAN,
              continue_on_error : BOOLEAN ] :
          /\ c.skip # NoneV => c.vars = EmptyDict /\ c.post_hook = NoneV /\ ~c.delete
          /\ c.vars # EmptyDict => c.post_hook = NoneV /\ c.force /\ ~c.delete }

\* a sheet of three rows whose second row names an unbound variable
ThreeRows ==
    [colnames |-> <<<<"A">>>>,
     rows |-> <<<<IntV(5)>>, <<StrV(V("z"))>>, <<IntV(7)>>>>,
     suffix |-> ".csv", file |-> "text"]

\* a sheet of one row
OneRow ==
    [colnames |-> <<<<"a">>, <<"b">>>>, rows |-> <<<<StrV(<<"x">>), IntV(2)>>>>,
     suffix |-> ".csv", file |-> "text"]

\* a sheet without a header row
NoHeader == [colnames |-> <<>>, rows |-> <<>>, suffix |-> ".csv", file |-> "text"]

\* an input path with the given suffix and what is found there: nothing, a
\* directory, a text file or a binary file
InputPath(suffix, file) ==
    [colnames |-> <<<<"a">>>>, rows |-> <<<<IntV(1)>>>>, suffix |-> suffix, file |-> file]

\* the template {{ l.append(2) }}{{ l }}
AppendTemplate == <<"{", "{", " ", "l", ".", "append", "(", "2", ")", " ", "}", "}">> \o V("l")

\* the input files of a run, in the configured order
RunInputs ==
    { <<ThreeRows>>, <<OneRow, ThreeRows>>, <<ThreeRows, OneRow>>, <<OneRow, NoHeader, OneRow>>,
      <<OneRow, InputPath(".csv", "absent")>>, <<OneRow, InputPath(".csv", "dir")>>,
      <<OneRow, InputPath(".csv", "binary")>>, <<OneRow, InputPath(".ods", "text")>>,
      <<InputPath(".xlsx", "binary"), OneRow>>, <<InputPath(".ods", "binary"), NoHeader>> }

\* check_file(path, binary): the exception it raises, "" if none
check_file(path, binary) ==
    IF path.file = "absent" THEN "FileNotFoundError"
    ELSE IF path.file # "text" /\ path.file # "binary" THEN "OSError"
    ELSE IF binary /\ path.file # "binary" THEN "OSError"
    ELSE IF ~binary /\ path.file = "binary" THEN "OSError"
    ELSE ""

\* only the file at hand is checked
CheckFile(inputs, f) ==
    IF f > Len(inputs) THEN ""
    ELSE check_file(inputs[f], inputs[f].suffix \in {".ods", ".xlsx"})

\* _generate_jobs, lines 193-195: every input path is checked, from path f
\* on; the first exception ends the loop
RECURSIVE CheckFiles(_, _)
CheckFiles(inputs, f) ==
    IF f > Len(inputs) THEN ""
    ELSE IF check_file(inputs[f], inputs[f].suffix \in {".ods", ".xlsx"}) # ""
         THEN check_file(inputs[f], inputs[f].suffix \in {".ods", ".xlsx"})
    ELSE CheckFiles(inputs, f + 1)

\* the generator is resumed with file f at hand, n rows before the row it
\* is to yield: it yields row i of a file, raises, or is exhausted
RECURSIVE Resume(_, _, _)
Resume(inputs, f, n) ==
    IF f > Len(inputs) THEN [to |-> "returned", f |-> f, i |-> 0, err |-> ""]
    ELSE IF n = 0 /\ Len(inputs[f].colnames) = 0
         THEN [to |-> "raised", f |-> f, i |-> 0, err |-> "InputListError"]
    ELSE IF n < Len(inputs[f].rows) THEN [to |-> "skip", f |-> f, i |-> n, err |-> ""]
    ELSE Resume(inputs, f + 1, n - Len(inputs[f].rows))

\* next(jobs) after n jobs were yielded: the first call runs the body of the
\* generator from its start, with the checks of the input paths
NextJobOf(inputs, n) ==
    IF n = 0 /\ CheckFiles(inputs, 1) # ""
    THEN [to |-> "raised", f |-> 0, i |-> 0, err |-> CheckFiles(inputs, 1)]
    ELSE Resume(inputs, 1, n)

\* JintaroJob(...) for row i with the merged variables and the configuration c
RunJob(c, variables, i) ==
    [variables |-> variables, row |-> i, output |-> <<"out">>, skip |-> c.skip,
     pre_hook |-> NoneV, post_hook |-> c.post_hook, force |-> c.force,
     delete |-> c.delete]

\* Jintaro.run raises the exception e
RunRaises(e) ==
    /\ pc' = "raised"
    /\ jlog' = jlog \o <<[raised |-> e]>>
    /\ UNCHANGED <<maps, ctxs, calls, failed, job, nops, rendered>>

\* the generator yields the job of row g.i of file g.f, unless merge_dicts
\* raised
Construct(merged, g) ==
    IF ~merged.ok THEN RunRaises(merged.v.err)
    ELSE /\ job' = RunJob(fs.config, merged.v, g.i)
         /\ maps' = NewMapping(St0, JobVars(RunJob(fs.config, merged.v, g.i)), 0).maps
         /\ ctxs' = <<>> /\ calls' = EmptyDict /\ failed' = {}
         /\ rendered' = <<>>
         /\ nops' = nops + 1
         /\ pc' = "skip"
         /\ jlog' = jlog \o <<[job |-> nops + 1, file |-> g.f, row |-> g.i]>>

\* next(jobs) gave g
Resumed(g) ==
    IF g.to = "returned"
    THEN pc' = "returned" /\ UNCHANGED <<maps, ctxs, calls, failed, job, nops, rendered, jlog>>
    ELSE IF g.to = "raised" THEN RunRaises(g.err)
    ELSE Construct(merge_dicts(fs.config.vars,
                               RowVariables(fs.inputs[g.f].colnames,
                                            fs.inputs[g.f].rows[g.i + 1], 1, EmptyDict)),
                   g)

InitRun ==
    /\ \E c \in RunConfigs, inp \in RunInputs :
          fs = [config |-> c, inputs |-> inp,
                tpl |-> [exists |-> TRUE,
                         text |-> IF "l" \in DOMAIN c.vars THEN AppendTemplate
                                  ELSE V("a") \o <<"-">> \o V("row")],
                parent |-> "dir", out |-> "absent", text |-> <<>>]
    /\ maps = <<>> /\ ctxs = <<>> /\ calls = EmptyDict /\ failed = {}
    /\ nops = 0 /\ lastOp = NoOp
    /\ PureIdle
    /\ pc = "generate" /\ job = "none" /\ rendered = <<>> /\ jlog = <<>>
\* a loop that asks for the next job while the post hook is still to run
RunNextEager ==
    /\ pc \in {"generate", "done", "skipped", "post"}
    /\ Resumed(NextJobOf(fs.inputs, nops))
    /\ UNCHANGED <<lastOp, pureVars, fs>>

\* run(), line 162: the for loop asks the generator for the next job, at the
\* start and after job.run() returned or its exception was logged
RunNext ==
    /\ pc \in {"generate", "done", "skipped"}
    /\ Resumed(NextJobOf(fs.inputs, nops))
    /\ UNCHANGED <<lastOp, pureVars, fs>>

\* a loop that goes on after a failed job whatever the configuration says
RunExceptLenient ==
    /\ pc = "failed"
    /\ pc' = "generate"
    /\ jlog' = jlog \o <<[logged |-> jlog[Len(jlog)].error]>>
    /\ UNCHANGED <<maps, ctxs, calls, failed, nops, lastOp, pureVars, job, fs, rendered>>

\* run(), lines 165-168: job.run() raised
RunExcept ==
    /\ pc = "failed"
    /\ IF fs.config.continue_on_error
       THEN /\ pc' = "generate"
            /\ jlog' = jlog \o <<[logged |-> jlog[Len(jlog)].error]>>
            /\ UNCHANGED <<mapVars, nops, job, rendered>>
       ELSE RunRaises(jlog[Len(jlog)].error)
    /\ UNCHANGED <<lastOp, pureVars, fs>>

NextRun ==
    \/ RunNext
    \/ RunExcept
    \/ JobSkip
    \/ \E rc \in {0, 1} : JobPreHook(rc)
    \/ JobRender
    \/ JobWrite
    \/ \E rc \in {0, 1} : JobPostHook(rc)
    \/ JobDelete

SpecRun == InitRun /\ [][NextRun]_vars

-----------------------------------------------------------------------------
(* Specification SpecHook: JintaroJob._run_hook and the subprocess it       *)
(* starts.  The child writes its output, one unit at a time, into the two   *)
(* pipes that Popen made; a write into a full pipe blocks.  fs holds the    *)
(* operating system's side: the child and the pipes; pc is the position of  *)
(* the parent in _run_hook.                                                 *)

\* the capacity of a pipe, in units of output
PipeCapacity == 2

\* the most output that a hook writes to one stream
MaxOutput == 3

\* the child and its pipes when Popen returns: the child will write out
\* units to stdout and err units to stderr, and then end with return code rc
Spawned(out, err, rc) ==
    [child |-> "running", rc |-> rc,
     left |-> [stdout |-> out, stderr |-> err],
     pipe |-> [stdout |-> 0, stderr |-> 0],
     read |-> [stdout |-> 0, stderr |-> 0],
     total |-> [stdout |-> out, stderr |-> err]]

\* lines 318-326: subprocess.Popen(command, stdout=PIPE, stderr=PIPE) returned
InitHook ==
    /\ \E out \in 0..MaxOutput, err \in 0..MaxOutput, rc \in {0, 1} :
          fs = Spawned(out, err, rc)
    /\ maps = <<>> /\ ctxs = <<>> /\ calls = EmptyDict /\ failed = {}
    /\ nops = 0 /\ lastOp = NoOp
    /\ PureIdle
    /\ pc = "wait" /\ job = "none" /\ rendered = <<>> /\ jlog = <<>>

\* what the hook steps leave alone
hookFrame == <<maps, ctxs, calls, failed, nops, lastOp, cOrig, cRend, cVal, cOut,
               job, rendered>>

\* the child writes one unit to stream s, which has room
ChildWrite(s) ==
    /\ fs.child = "running"
    /\ fs.left[s] > 0
    /\ fs.pipe[s] < PipeCapacity
    /\ fs' = [fs EXCEPT !.left[s] = @ - 1, !.pipe[s] = @ + 1]
    /\ UNCHANGED <<hookFrame, pc, jlog>>

\* the child has written all its output and exits
ChildExit ==
    /\ fs.child = "running"
    /\ fs.left.stdout = 0 /\ fs.left.stderr = 0
    /\ fs' = [fs EXCEPT !.child = "exited"]
    /\ UNCHANGED <<hookFrame, pc, jlog>>

\* line 327: process.wait() returns once the child has exited
HookWait ==
    /\ pc = "wait"
    /\ fs.child = "exited"
    /\ pc' = "read"
    /\ UNCHANGED <<hookFrame, fs, jlog>>

\* lines 328-333: both pipes are read to their end, which is there once the
\* child has closed them; then the return code decides
HookRead ==
    /\ pc = "read"
    /\ fs.child = "exited"
    /\ fs' = [fs EXCEPT !.read = [s \in {"stdout", "stderr"} |-> @[s] + fs.pipe[s]],
                        !.pipe = [s \in {"stdout", "stderr"} |-> 0]]
    /\ pc' = IF fs.rc = 0 THEN "returned" ELSE "raised"
    /\ jlog' = IF fs.rc = 0 THEN jlog ELSE jlog \o <<[error |-> "HookRunError"]>>
    /\ UNCHANGED hookFrame

NextHook ==
    \/ \E s \in {"stdout", "stderr"} : ChildWrite(s)
    \/ ChildExit
    \/ HookWait
    \/ HookRead

\* the child and the parent are scheduled: a step that can be taken is taken
SpecHook == InitHook /\ [][NextHook]_vars /\ WF_vars(NextHook)

-----------------------------------------------------------------------------
(* Specification SpecConfig: Jintaro.run from the settings of the API, the  *)
(* environment and the configuration file: Config(...) merges and validates *)
(* them, _generate_jobs loads the first sheet and constructs the first job. *)
(* fs holds the three sources, the merged configuration and the arguments   *)
(* of pyexcel.get_sheet.                                                    *)

\* pathlib.Path(s)
PathV(s) == [t |-> "path", s |-> s]

\* a tuple
TupleV(l) == [t |-> "tuple", l |-> l]

\* Jintaro.__init__: the dict of the ApiConfigSource
FreshApi ==
    [config_path |-> NoneV, input |-> NoneV, template |-> NoneV, output |-> NoneV,
     force |-> NoneV, delete |-> NoneV, pre_hook |-> NoneV, post_hook |-> NoneV,
     header_row_column |-> NoneV, csv_delimiter |-> NoneV, vars |-> NoneV,
     continue_on_error |-> NoneV]

\* ConfigSource.get(path) for a path of one key: None if the key is absent
SourceGet(config, key) == IF key \in DOMAIN config THEN config[key] ELSE NoneV

\* ConfigValidation.str_to_list(val): val.split(":"), each part stripped
StripAll(parts) == [i \in 1..Len(parts) |-> StrV(Strip(parts[i]))]

str_to_list(val) == ListV(StripAll(Split(val.s, ":")))

\* ConfigValidation.str_to_bool(val): a raise if strtobool raises ValueError
str_to_bool(val) ==
    IF ~StrToBool(Strip(val.s)).ok THEN RaiseV("ValueError")
    ELSE BoolV(StrToBool(Strip(val.s)).v.n = 1)

\* the coercion of the schemas of the environment and of the file
Coerced(key, val) ==
    IF key \in {"JINTARO_INPUT", "input"} THEN
        (IF val.t = "str" THEN str_to_list(val) ELSE val)
    ELSE IF key \in {"JINTARO_FORCE", "JINTARO_DELETE"} THEN
        (IF val.t = "str" THEN str_to_bool(val) ELSE val)
    ELSE IF key \in {"JINTARO_HEADER_ROW_COLUMN", "header_row_column"} THEN
        val_to_row_column(val)
    ELSE val

\* the type rules of the schemas of the environment and of the file
WellTyped(key, val) ==
    IF key \in {"JINTARO_INPUT", "input", "JINTARO_HEADER_ROW_COLUMN", "header_row_column"}
    THEN val.t \in {"list", "tuple"}
    ELSE IF key \in {"JINTARO_FORCE", "JINTARO_DELETE", "force", "delete"} THEN val.t = "bool"
    ELSE IF key = "vars" THEN val.t \in {"none", "dict"}
    ELSE TRUE

\* ConfigValidation._validate on a source: the normalised document, or
\* ConfigError
Validated(config) ==
    IF \E key \in DOMAIN config : ~WellTyped(key, Coerced(key, config[key]))
    THEN [ok |-> FALSE, config |-> EmptyDict, err |-> "ConfigError"]
    ELSE [ok |-> TRUE, config |-> [key \in DOMAIN config |-> Coerced(key, config[key])],
          err |-> ""]

\* EnvironmentConfigSource(): the variables JINTARO_* of the environment
EnvironmentConfigSource(environ) == Validated(environ)

\* YmlFileConfigSource(path): the file is read and parsed, then validated;
\* without a path the source is an empty ConfigSource
FileConfigSource(config_path, file) ==
    IF config_path = NoneV THEN [ok |-> TRUE, config |-> EmptyDict, err |-> ""]
    ELSE IF ~file.exists THEN [ok |-> FALSE, config |-> EmptyDict, err |-> "ConfigError"]
    ELSE Validated(file.yaml)

\* the first truthy value
RECURSIVE DefaultsTruthy(_)
DefaultsTruthy(values) ==
    IF Len(values) = 0 THEN NoneV
    ELSE IF Truthy(<<>>, values[1]) THEN values[1]
    ELSE DefaultsTruthy(Tail(values))

\* Config._defaults(*values): the first value that is not None
RECURSIVE Defaults(_)
Defaults(values) ==
    IF Len(values) = 0 THEN NoneV
    ELSE IF values[1] # NoneV THEN values[1]
    ELSE Defaults(Tail(values))

\* Config._init_schema: the default of every option of the schema
SchemaDefaults(api, env, file) ==
    [input |-> Defaults(<<SourceGet(api, "input"), SourceGet(env, "JINTARO_INPUT"),
                          SourceGet(file, "input")>>),
     template |-> Defaults(<<SourceGet(api, "template"), SourceGet(env, "JINTARO_TEMPLATE"),
                             SourceGet(file, "template")>>),
     output |-> Defaults(<<SourceGet(api, "output"), SourceGet(env, "JINTARO_OUTPUT"),
                           SourceGet(file, "output")>>),
     force |-> Defaults(<<SourceGet(api, "force"), SourceGet(env, "JINTARO_FORCE"),
                          SourceGet(file, "force"), BoolV(FALSE)>>),
     delete |-> Defaults(<<SourceGet(api, "delete"), SourceGet(env, "JINTARO_DELETE"),
                           SourceGet(file, "delete"), BoolV(FALSE)>>),
     pre_hook |-> Defaults(<<SourceGet(api, "pre_hook"), SourceGet(env, "JINTARO_PRE_HOOK"),
                             SourceGet(file, "pre_hook")>>),
     post_hook |-> Defaults(<<SourceGet(api, "post_hook"), SourceGet(env, "JINTARO_POST_HOOK"),
                              SourceGet(file, "post_hook")>>),
     csv_delimiter |-> Defaults(<<SourceGet(api, "csv_delimiter"),
                                  SourceGet(env, "JINTARO_CSV_DELIMITER"),
                                  SourceGet(file, "csv_delimiter"), StrV(<<",">>)>>),
     skip |-> Defaults(<<SourceGet(api, "skip"), SourceGet(env, "JINTARO_SKIP"),
                         SourceGet(file, "skip")>>),
     header_row_column |-> Defaults(<<SourceGet(api, "header_row_column"),
                                      SourceGet(env, "JINTARO_HEADER_ROW_COLUMN"),
                                      SourceGet(file, "header_row_column"),
                                      ListV(<<IntV(0), IntV(0)>>)>>),
     vars |-> Defaults(<<SourceGet(api, "vars"), SourceGet(env, "JINTARO_HEADER_ROW_COLUMN"),
                         SourceGet(file, "vars"), ListV(<<IntV(0), IntV(0)>>)>>)]

\* the rules of the schema of Config that the value of an option breaks
BreaksRule(key, val) ==
    CASE key = "input" -> val.t \notin {"list", "tuple"} \/ Len(val.l) = 0
      [] key \in {"template", "output"} -> val.t # "str" \/ Len(val.s) = 0
      [] key \in {"force", "delete"} -> val.t # "bool"
      [] key \in {"pre_hook", "post_hook"} -> val.t \notin {"none", "str"}
      [] key = "csv_delimiter" -> val.t # "str" \/ Len(val.s) < 1
      [] key = "skip" -> val.t # "none" /\ (val.t # "str" \/ ~IsPossiblyTemplate(val))
      [] key = "header_row_column" -> val.t \notin {"none", "list", "tuple"}
      [] key = "vars" -> val.t \notin {"none", "dict"}

\* the options of the normalised document that the validator rejects
Invalid(document) == { key \in DOMAIN document : BreaksRule(key, document[key]) }

\* Config.__init__ after its sources were made: the schema's defaults fill
\* the empty document, which is then validated
ConfigOf(api, env, file) ==
    IF ~env.ok THEN [ok |-> FALSE, config |-> EmptyDict, err |-> env.err, options |-> {}]
    ELSE IF ~file.ok THEN [ok |-> FALSE, config |-> EmptyDict, err |-> file.err, options |-> {}]
    ELSE IF Invalid(SchemaDefaults(api, env.config, file.config)) # {}
    THEN [ok |-> FALSE, config |-> EmptyDict, err |-> "ConfigError",
          options |-> Invalid(SchemaDefaults(api, env.config, file.config))]
    ELSE [ok |-> TRUE, config |-> SchemaDefaults(api, env.config, file.config), err |-> "",
          options |-> {}]

\* Config(self._api_config, use_envs=True)
Config(api, environ, file) ==
    ConfigOf(api, EnvironmentConfigSource(environ), FileConfigSource(api.config_path, file))

\* the dicts of the ApiConfigSource that the setters of Jintaro leave behind
ApiStates ==
    { FreshApi,
      [FreshApi EXCEPT !.vars = DictV("b" :> IntV(2))],
      [FreshApi EXCEPT !.vars = DictV("b" :> IntV(2)), !.force = BoolV(FALSE),
                       !.delete = BoolV(FALSE), !.csv_delimiter = StrV(<<"-">>),
                       !.header_row_column = TupleV(<<IntV(1), IntV(2)>>),
                       !.pre_hook = StrV(<<"apre">>), !.post_hook = StrV(<<"apost">>)],
      [FreshApi EXCEPT !.vars = DictV("b" :> IntV(2)), !.config_path = PathV(<<"c.yml">>)],
      [FreshApi EXCEPT !.config_path = PathV(<<"c.yml">>)],
      [FreshApi EXCEPT !.vars = DictV("b" :> IntV(2)), !.config_path = PathV(<<"c.yml">>),
                       !.template = PathV(<<"at">>), !.output = PathV(<<"ao">>)],
      [FreshApi EXCEPT !.vars = DictV("b" :> IntV(2)), !.config_path = PathV(<<"c.yml">>),
                       !.force = BoolV(TRUE), !.header_row_column = TupleV(<<IntV(0), IntV(2)>>)],
      [FreshApi EXCEPT !.vars = DictV("b" :> IntV(2)),
                       !.header_row_column = TupleV(<<IntV(2), IntV(0)>>)] }

\* the variables JINTARO_* of the environment
Environs ==
    { EmptyDict,
      "JINTARO_INPUT" :> StrV(<<"in.csv">>) @@ "JINTARO_TEMPLATE" :> StrV(<<"et">>)
          @@ "JINTARO_OUTPUT" :> StrV(<<"eo">>),
      "JINTARO_INPUT" :> StrV(<<"in.csv", ":", " ", "b.csv">>)
          @@ "JINTARO_TEMPLATE" :> StrV(<<"et">>) @@ "JINTARO_OUTPUT" :> StrV(<<"eo">>)
          @@ "JINTARO_FORCE" :> StrV(<<"true">>) @@ "JINTARO_DELETE" :> StrV(<<"0">>)
          @@ "JINTARO_HEADER_ROW_COLUMN" :> StrV(<<"1", ",", "1">>)
          @@ "JINTARO_CSV_DELIMITER" :> StrV(<<";">>)
          @@ "JINTARO_PRE_HOOK" :> StrV(<<"epre">>),
      "JINTARO_INPUT" :> StrV(<<"in.csv">>) @@ "JINTARO_TEMPLATE" :> StrV(<<"et">>)
          @@ "JINTARO_OUTPUT" :> StrV(<<"eo">>) @@ "JINTARO_FORCE" :> StrV(<<"maybe">>) }

\* the configuration file: missing, or what yaml.load makes of it
ConfigFiles ==
    { [exists |-> FALSE, yaml |-> EmptyDict],
      [exists |-> TRUE, yaml |-> EmptyDict],
      [exists |-> TRUE,
       yaml |-> "input" :> StrV(<<"f.csv">>) @@ "template" :> StrV(<<"ft">>)
                @@ "output" :> StrV(<<"fo">>) @@ "force" :> BoolV(TRUE)
                @@ "delete" :> BoolV(TRUE) @@ "pre_hook" :> StrV(<<"fpre">>)
                @@ "post_hook" :> StrV(<<"fpost">>) @@ "csv_delimiter" :> StrV(<<"|">>)
                @@ "skip" :> SkipAfterFirst
                @@ "header_row_column" :> ListV(<<IntV(2), IntV(1)>>)
                @@ "vars" :> DictV("a" :> IntV(1))] }

\* Jintaro.run is called
InitConfig ==
    /\ \E api \in ApiStates, environ \in Environs, file \in ConfigFiles :
          fs = [api |-> api, environ |-> environ, file |-> file, config |-> EmptyDict,
                sheet |-> OneRow, loaded |-> EmptyDict]
    /\ maps = <<>> /\ ctxs = <<>> /\ calls = EmptyDict /\ failed = {}
    /\ nops = 0 /\ lastOp = NoOp
    /\ PureIdle
    /\ pc = "config" /\ job = "none" /\ rendered = <<>> /\ jlog = <<>>

\* the outcome c of Config(...) is taken
Configured(c) ==
    IF c.ok THEN /\ pc' = "generate"
                 /\ fs' = [fs EXCEPT !.config = c.config]
                 /\ jlog' = jlog
    ELSE /\ pc' = "raised"
         /\ fs' = fs
         /\ jlog' = jlog \o <<[raised |-> c.err, options |-> c.options]>>

\* run(), line 156
RunConfig ==
    /\ pc = "config"
    /\ Configured(Config(fs.api, fs.environ, fs.file))
    /\ UNCHANGED <<mapVars, pureVars, job, rendered>>

\* _generate_jobs, lines 189-207: the input paths are checked and the sheet
\* of the first one is loaded
RunLoad ==
    /\ pc = "generate"
    /\ IF CheckFiles([i \in 1..Len(fs.config.input.l) |-> fs.sheet], 1) # ""
       THEN /\ pc' = "raised"
            /\ jlog' = jlog \o <<[raised |-> CheckFiles([i \in 1..Len(fs.config.input.l) |->
                                                            fs.sheet], 1),
                                  options |-> {}]>>
            /\ fs' = fs
       ELSE /\ pc' = "loaded"
            /\ fs' = [fs EXCEPT !.loaded =
                        [file_name |-> fs.config.input.l[1],
                         delimiter |-> fs.config.csv_delimiter,
                         start_column |-> fs.config.header_row_column.l[1],
                         start_row |-> fs.config.header_row_column.l[2]]]
            /\ jlog' = jlog
    /\ UNCHANGED <<mapVars, pureVars, job, rendered>>

\* _generate_jobs, lines 209-238, for the first row of the sheet: the job
\* is constructed with cwd = config_path.parent
RunConstruct ==
    /\ pc = "loaded"
    /\ IF HeaderMissing(fs.sheet.colnames)
       THEN /\ pc' = "raised"
            /\ jlog' = jlog \o <<[raised |-> "InputListError", options |-> {}]>>
            /\ job' = job
       ELSE IF Len(fs.sheet.rows) = 0
       THEN pc' = "returned" /\ jlog' = jlog /\ job' = job
       ELSE IF fs.api.config_path = NoneV
       THEN /\ pc' = "raised"
            /\ jlog' = jlog \o <<[raised |-> "AttributeError", options |-> {}]>>
            /\ job' = job
       ELSE /\ pc' = "skip"
            /\ jlog' = jlog
            /\ job' = [cwd |-> <<"parent">>, input_path |-> fs.config.input.l[1], row |-> 0,
                       output_path |-> fs.config.output, template_path |-> fs.config.template,
                       skip |-> fs.config.skip, force |-> fs.config.force,
                       delete |-> fs.config.delete, pre_hook |-> fs.config.pre_hook,
                       post_hook |-> fs.config.post_hook]
    /\ UNCHANGED <<mapVars, pureVars, fs, rendered>>

NextConfig == RunConfig \/ RunLoad \/ RunConstruct

SpecConfig == InitConfig /\ [][NextConfig]_vars

-----------------------------------------------------------------------------
(* Specification SpecApi: one Jintaro instance and the calls of its setters *)
(* and getters.  fs.api is the dict of its ApiConfigSource; lastOp is the   *)
(* last call with what it returned or raised.                               *)

\* the Jintaro instance, which the setters return
SelfV == [t |-> "self"]

\* the outcome of a call: the dict of the ApiConfigSource, what the call
\* returned, and the exception it raised
Called(api, val, err) == [api |-> api, val |-> val, err |-> err]

\* Path(p) if isinstance(p, str) else p
AsPath(p) == IF p.t = "str" THEN PathV(p.s) ELSE p

\* Jintaro._property(name, value, clear)
Property(api, name, value, clear) ==
    IF clear THEN Called([api EXCEPT ![name] = NoneV], SelfV, "")
    ELSE IF value = NoneV THEN Called(api, SourceGet(api, name), "")
    ELSE Called([api EXCEPT ![name] = value], SelfV, "")

\* input(), lines 70-79, on a list of paths: the given path or paths are
\* added to it
Extended(api, paths, path) ==
    IF path.t = "list"
    THEN Called([api EXCEPT !.input = ListV(paths.l \o [i \in 1..Len(path.l) |-> AsPath(path.l[i])])],
                SelfV, "")
    ELSE Called([api EXCEPT !.input = ListV(Append(paths.l, AsPath(path)))], SelfV, "")

\* Jintaro.input(path, clear): paths.extend and paths.append raise
\* AttributeError on None
Input(api, path, clear) ==
    IF clear THEN Called([api EXCEPT !.input = NoneV], SelfV, "")
    ELSE IF path = NoneV THEN Called(api, SourceGet(api, "input"), "")
    ELSE IF SourceGet(api, "input") = NoneV THEN Called(api, NoneV, "AttributeError")
    ELSE Extended(api, SourceGet(api, "input"), path)

\* Jintaro.header_row_column(row, column, clear)
HeaderRowColumn(api, row, column, clear) ==
    IF row = NoneV /\ column = NoneV
    THEN Property(api, "header_row_column", NoneV, clear)
    ELSE Property(api, "header_row_column",
                  TupleV(<<IF row = NoneV THEN IntV(0) ELSE row,
                           IF column = NoneV THEN IntV(0) ELSE column>>),
                  clear)

\* the arguments of the calls
InputArgs ==
    { NoneV, StrV(<<"x">>), PathV(<<"y">>), ListV(<<StrV(<<"x">>), PathV(<<"y">>)>>) }

PathArgs == { NoneV, StrV(<<"t">>) }

PositionArgs == { NoneV, IntV(0), IntV(1) }

\* Jintaro()
InitApi ==
    /\ fs = [api |-> FreshApi]
    /\ lastOp = [op |-> "new", path |-> NoneV, clear |-> FALSE, val |-> SelfV, err |-> ""]
    /\ maps = <<>> /\ ctxs = <<>> /\ calls = EmptyDict /\ failed = {}
    /\ nops = 0
    /\ PureIdle
    /\ pc = "api" /\ job = "none" /\ rendered = <<>> /\ jlog = <<>>

\* the call op(path, clear) had the outcome c
Returned(op, path, clear, c) ==
    /\ fs' = [fs EXCEPT !.api = c.api]
    /\ lastOp' = [op |-> op, path |-> path, clear |-> clear, val |-> c.val, err |-> c.err]
    /\ UNCHANGED <<maps, ctxs, calls, failed, nops, pureVars, pc, job, rendered, jlog>>

\* jintaro.input(path, clear)
ApiInput(path, clear) == Returned("input", path, clear, Input(fs.api, path, clear))

\* jintaro.config(path, clear)
ApiConfig(path, clear) ==
    Returned("config", path, clear, Property(fs.api, "config_path", AsPath(path), clear))

\* jintaro.template(path, clear)
ApiTemplate(path, clear) ==
    Returned("template", path, clear, Property(fs.api, "template", AsPath(path), clear))

\* jintaro.force(force_, clear)
ApiForce(force_, clear) ==
    Returned("force", force_, clear, Property(fs.api, "force", force_, clear))

\* jintaro.extra_vars(vars, clear)
ApiExtraVars(value, clear) ==
    Returned("extra_vars", value, clear, Property(fs.api, "vars", value, clear))

\* jintaro.header_row_column(row, column, clear)
ApiHeaderRowColumn(row, column, clear) ==
    Returned("header_row_column", TupleV(<<row, column>>), clear,
             HeaderRowColumn(fs.api, row, column, clear))

NextApi ==
    \/ \E path \in InputArgs, clear \in BOOLEAN : ApiInput(path, clear)
    \/ \E path \in PathArgs, clear \in BOOLEAN : ApiConfig(path, clear)
    \/ \E path \in PathArgs, clear \in BOOLEAN : ApiTemplate(path, clear)
    \/ \E force_ \in {NoneV, BoolV(TRUE), BoolV(FALSE)}, clear \in BOOLEAN : ApiForce(force_, clear)
    \/ \E value \in {NoneV, DictV("b" :> IntV(2))}, clear \in BOOLEAN : ApiExtraVars(value, clear)
    \/ \E row \in PositionArgs, column \in PositionArgs, clear \in BOOLEAN :
          ApiHeaderRowColumn(row, column, clear)

SpecApi == InitApi /\ [][NextApi]_vars

(***************************************************************************)
(* Properties of the lazy mapping, checked under Spec.                     *)
(***************************************************************************)

MapIds == 1..Len(maps)

\* the last call was a read (mapping[key] or key in mapping) that returned
ReadOk == lastOp.op \in {"read", "in"} /\ lastOp.err = ""

\* C1: an unresolved entry of a mapping is rendered exactly once, at its
\* first read, provided no render of it raised: while it is unresolved and
\* unfailed the engine was never invoked for it, once read it is stored
\* resolved after exactly one invocation, and every later read returns the
\* stored value with no further invocation.
C1_RenderedOnce ==
    /\ \A m \in MapIds : \A key \in DOMAIN maps[m].data :
          <<m, key>> \notin failed =>
              /\ Cnt(calls, m, key) <= 1
              /\ maps[m].data[key].t = "unres" => Cnt(calls, m, key) = 0
    /\ ReadOk /\ lastOp.key \in DOMAIN maps[lastOp.m].data =>
          /\ maps[lastOp.m].data[lastOp.key].t # "unres"
          /\ lastOp.op = "read" => lastOp.val = maps[lastOp.m].data[lastOp.key]

\* a read that rendered nothing returns an entry the engine rendered once before
C1_Witness ==
    /\ lastOp.op = "read" /\ lastOp.err = "" /\ lastOp.depth = 0
    /\ lastOp.was.t # "unres"
    /\ Cnt(calls, lastOp.m, lastOp.key) = 1
    /\ lastOp.val = maps[lastOp.m].data[lastOp.key]


\* the variables bound in mapping m's own context, none before it has one
CtxVars(mp, cx, m) == IF mp[m].context = 0 THEN EmptyDict ELSE cx[mp[m].context].vars

\* the mapping that lookups from mapping m's renders fall back to: the lazy
\* mapping of its context, itself when its first render makes the context
LazyOf(mp, cx, m) == IF mp[m].context = 0 THEN m ELSE cx[mp[m].context].lazy_vars

\* the names a lookup from mapping m's renders takes from that mapping
LazyNames(mp, cx, m) ==
    (DOMAIN mp[LazyOf(mp, cx, m)].data)
        \ ((DOMAIN Globals) \cup DOMAIN CtxVars(mp, cx, m))

SeqRange(q) == { q[i] : i \in 1..Len(q) }

\* the entries <<mapping, key>> that the template stored under key of
\* mapping m refers to
Refs(mp, cx, m, key) ==
    IF Entry(mp, m, key).t # "unres" THEN {}
    ELSE IF ~Compile(Entry(mp, m, key).s).ok THEN {}
    ELSE { <<LazyOf(mp, cx, m), nm>> :
             nm \in SeqRange(NamesOf(Compile(Entry(mp, m, key).s).nodes, 1, <<>>))
                        \cap LazyNames(mp, cx, m) }

RECURSIVE ReachFrom(_, _, _)

\* S grown to T: done when nothing was added
ReachMore(mp, cx, S, T) == IF T = S THEN S ELSE ReachFrom(mp, cx, T)

\* the entries that the entries of S refer to, directly or through others
ReachFrom(mp, cx, S) ==
    ReachMore(mp, cx, S, S \cup UNION { Refs(mp, cx, e[1], e[2]) : e \in S })

\* key's template refers to itself, directly or through other entries
OnCycle(mp, cx, m, key) == <<m, key>> \in ReachFrom(mp, cx, Refs(mp, cx, m, key))

\* the stored value is the template {{ b }} and b is looked up in the mapping
SingleRef(mp, cx, m, v, b) ==
    v.t = "unres" /\ v.s = V(b) /\ b \in LazyNames(mp, cx, m)

Names == SeqRange(KeyOrder)

\* C2: when the template of entry a refers to entry b of the same mapping,
\* reading a resolves b through the mapping while a renders, a's value is
\* built from b's memoized value (a = "{{ b }}", b = "5" gives the integer 5
\* and leaves b the string "5"), and reading b next returns that same stored
\* value and renders nothing.
C2_Reentrant ==
    [][\A b \in Names :
        /\ ( /\ lastOp'.op = "read" /\ lastOp'.err = ""
             /\ SingleRef(maps, ctxs, lastOp'.m, lastOp'.was, b) )
           => /\ Entry(maps', LazyOf(maps, ctxs, lastOp'.m), b).t # "unres"
              /\ lastOp'.val =
                    Coerce(lastOp'.was,
                           StrOf(maps', Entry(maps', LazyOf(maps, ctxs, lastOp'.m), b)))
              /\ Entry(maps, LazyOf(maps, ctxs, lastOp'.m), b) = StrV(<<"5">>)
                    => /\ lastOp'.val = IntV(5)
                       /\ Entry(maps', LazyOf(maps, ctxs, lastOp'.m), b) = StrV(<<"5">>)
        /\ ( /\ lastOp.op = "read" /\ lastOp.err = ""
             /\ lastOp.was.t = "unres" /\ lastOp.was.s = V(b)
             /\ b \in LazyNames(maps, ctxs, lastOp.m)
             /\ lastOp'.op = "read" /\ lastOp'.key = b
             /\ lastOp'.m = LazyOf(maps, ctxs, lastOp.m) )
           => /\ lastOp'.err = "" /\ lastOp'.depth = 0
              /\ lastOp'.val = maps[lastOp'.m].data[b]
              /\ lastOp.val = Coerce(lastOp.was, StrOf(maps, lastOp'.val))
              /\ maps' = maps /\ calls' = calls
      ]_vars

\* a = "{{ b }}" was read and became 5, then b was read and is still "5"
C2_Witness ==
    /\ lastOp.op = "read" /\ lastOp.m = 1 /\ lastOp.key = "b"
    /\ lastOp.val = StrV(<<"5">>) /\ lastOp.depth = 0
    /\ Entry(maps, 1, "a") = IntV(5)
    /\ Cnt(calls, 1, "a") = 1 /\ Cnt(calls, 1, "b") = 0


\* the last call read an entry that lies on a reference cycle
CycleRead ==
    /\ lastOp.op \in {"read", "in"}
    /\ OnCycle(maps, ctxs, lastOp.m, lastOp.key)

\* C3 as the specification words it: reading an entry on a cycle of references ends in
\* an error, memoizes no entry of the cycle, and nests at most as many
\* renders as the mapping has entries.
C3_DepthWithinEntries ==
    CycleRead =>
        /\ lastOp.err # ""
        /\ lastOp.depth <= Cardinality(DOMAIN maps[lastOp.m].data)

\* C3: reading an entry on a cycle of references ends in an error and
\* memoizes no entry of the cycle; no cycle is detected, the renders nest
\* until the interpreter's recursion limit is reached and RecursionError is
\* raised, however few entries the mapping has.
C3_CycleFails ==
    [][\A m \in MapIds : \A key \in DOMAIN maps[m].data :
        OnCycle(maps, ctxs, m, key) /\ lastOp'.op # "write" =>
            /\ maps'[m].data[key] = maps[m].data[key]
            /\ OnCycle(maps', ctxs', m, key)
            /\ lastOp'.m = m /\ lastOp'.key = key =>
                  /\ lastOp'.err = "RecursionError"
                  /\ lastOp'.depth >= RecursionLimit
                  /\ <<m, key>> \in failed'
      ]_vars

\* a = "{{ b }}" and b = "{{ a }}": the read of a failed at the recursion
\* limit, deeper than the mapping has entries, and both are still templates
C3_Witness ==
    /\ lastOp.op = "read" /\ lastOp.m = 1 /\ lastOp.key = "a"
    /\ lastOp.err = "RecursionError"
    /\ lastOp.depth > Cardinality(DOMAIN maps[1].data)
    /\ Entry(maps, 1, "a") = Unres(V("b"))
    /\ Entry(maps, 1, "b") = Unres(V("a"))


\* the value the engine's lookup of name nm yields in a render of mapping m,
\* read off the state: the context's own variable, else the parent's, else
\* the entry of the lazy mapping as it is stored after the render
Bound(m, nm) ==
    IF nm \in DOMAIN CtxVars(maps, ctxs, m) THEN CtxVars(maps, ctxs, m)[nm]
    ELSE IF nm \in DOMAIN Globals THEN Globals[nm]
    ELSE Entry(maps', LazyOf(maps, ctxs, m), nm)

\* name nm is bound in the context of mapping m or in its parent
Shadowed(m, nm) == nm \in (DOMAIN CtxVars(maps, ctxs, m)) \cup DOMAIN Globals

\* C5: a lookup takes a name from the context's own variables first, then
\* from the parent context, and only then from the lazy mapping; a lazy
\* variable whose name is bound in either of the first two is neither
\* rendered nor returned by the lookup.
C5_ResolutionOrder ==
    [][\A nm \in Names :
        ( /\ lastOp'.op = "read" /\ lastOp'.err = ""
          /\ lastOp'.was.t = "unres" /\ lastOp'.was.s = V(nm)
          /\ nm \in (DOMAIN maps[LazyOf(maps, ctxs, lastOp'.m)].data)
                       \cup (DOMAIN CtxVars(maps, ctxs, lastOp'.m)) \cup DOMAIN Globals )
        => /\ lastOp'.val = Coerce(lastOp'.was, StrOf(maps', Bound(lastOp'.m, nm)))
           /\ Shadowed(lastOp'.m, nm) =>
                 /\ Entry(maps', LazyOf(maps, ctxs, lastOp'.m), nm)
                       = Entry(maps, LazyOf(maps, ctxs, lastOp'.m), nm)
                 /\ Cnt(calls', LazyOf(maps, ctxs, lastOp'.m), nm)
                       = Cnt(calls, LazyOf(maps, ctxs, lastOp'.m), nm)
      ]_vars

\* after {% set x = 1 %} ran in the context, "{{ x }}" gave the context's 1
\* and not the lazy x = "q", and "{{ range }}" gave the global while the lazy
\* template stored under range was never rendered
C5_Witness ==
    /\ Entry(maps, 1, "b") = IntV(1)
    /\ Entry(maps, 1, "x") = StrV(<<"q">>)
    /\ lastOp.op = "read" /\ lastOp.key = "c" /\ lastOp.err = ""
    /\ lastOp.val = StrV(StrOf(maps, GlobalV("range")))
    /\ Entry(maps, 1, "range").t = "unres"
    /\ Cnt(calls, 1, "range") = 0

\* C7: an entry that is not an unresolved template (a resolved value, a
\* plain string, a number, a boolean, a list, a nested mapping) is returned
\* by a read exactly as stored; the read invokes the engine for nothing and
\* leaves every mapping unchanged, and no other call but a write to the key
\* changes the entry.
C7_LiteralReads ==
    [][\A m \in MapIds : \A key \in DOMAIN maps[m].data :
        maps[m].data[key].t # "unres" =>
            /\ ~(lastOp'.op = "write" /\ lastOp'.m = m /\ lastOp'.key = key)
                  => /\ maps'[m].data[key] = maps[m].data[key]
                     /\ Cnt(calls', m, key) = Cnt(calls, m, key)
            /\ (lastOp'.op = "read" /\ lastOp'.m = m /\ lastOp'.key = key)
                  => /\ lastOp'.val = maps[m].data[key]
                     /\ lastOp'.err = "" /\ lastOp'.depth = 0
                     /\ maps' = maps /\ calls' = calls /\ ctxs' = ctxs
      ]_vars

\* a literal entry that no render produced was read and came back as stored
C7_Witness ==
    /\ lastOp.op = "read" /\ lastOp.err = "" /\ lastOp.depth = 0
    /\ lastOp.was.t \in {"str", "int", "bool", "list", "map"}
    /\ lastOp.val = lastOp.was
    /\ Cnt(calls, lastOp.m, lastOp.key) = 0
    /\ Entry(maps, lastOp.m, lastOp.key) = lastOp.was


\* the entry that construction makes of value v under a key of its own,
\* a nested mapping apart
Constructed(v) == NewMapping(St0, "a" :> v, 0).maps[1].data["a"]

\* C11: mapping[key] = value classifies the value as construction does and
\* replaces only that key's entry; every other entry keeps its stored value
\* and its render count, and an entry that is resolved stays as stored and
\* is rendered no more by any later read or write of another key.
C11_WriteKeepsOthers ==
    [][/\ lastOp'.op = "write" =>
            /\ DOMAIN maps'[1].data = (DOMAIN maps[1].data) \cup {lastOp'.key}
            /\ \A k \in (DOMAIN maps[1].data) \ {lastOp'.key} :
                  /\ maps'[1].data[k] = maps[1].data[k]
                  /\ Cnt(calls', 1, k) = Cnt(calls, 1, k)
            /\ \A m \in 2..Len(maps) : maps'[m] = maps[m]
            /\ lastOp'.val.t # "dict" =>
                  /\ maps'[1].data[lastOp'.key] = Constructed(lastOp'.val)
                  /\ Len(maps') = Len(maps)
            /\ lastOp'.val.t = "dict" =>
                  /\ maps'[1].data[lastOp'.key] = MapV(Len(maps) + 1)
                  /\ Len(maps') = Len(maps) + 1
                  /\ maps'[Len(maps) + 1].data
                        = NewMapping(St0, lastOp'.val.d, 0).maps[1].data
       /\ \A m \in MapIds : \A k \in DOMAIN maps[m].data :
            ( /\ maps[m].data[k].t # "unres"
              /\ ~(lastOp'.op = "write" /\ lastOp'.m = m /\ lastOp'.key = k) )
            => /\ maps'[m].data[k] = maps[m].data[k]
               /\ Cnt(calls', m, k) = Cnt(calls, m, k)
      ]_vars

\* a = "{{ b }}" was resolved to 5 while b was "5"; b was then overwritten
\* with 7, and the next read of a still returns 5 and renders nothing
C11_Witness ==
    /\ lastOp.op = "read" /\ lastOp.m = 1 /\ lastOp.key = "a"
    /\ lastOp.was = IntV(5) /\ lastOp.val = IntV(5)
    /\ Entry(maps, 1, "b") = IntV(7)
    /\ Cnt(calls, 1, "a") = 1

\* C12: reading a key that has no entry returns the strict-undefined
\* sentinel of that name and raises nothing; the read adds no entry and
\* changes no stored value, context or render count.
C12_MissingKeyRead ==
    [][( /\ lastOp'.op = "read"
         /\ lastOp'.key \notin DOMAIN maps[lastOp'.m].data )
        => /\ lastOp'.val = UndefV(lastOp'.key)
           /\ lastOp'.err = ""
           /\ maps' = maps /\ ctxs' = ctxs /\ calls' = calls /\ failed' = failed
      ]_vars

\* the key z, which no mapping holds, was read: the sentinel came back and
\* the mapping still has no entry z
C12_Witness ==
    /\ lastOp.op = "read" /\ lastOp.key = MissingKey
    /\ lastOp.val = UndefV(MissingKey) /\ lastOp.err = ""
    /\ MissingKey \notin DOMAIN maps[lastOp.m].data

\* C14: at every moment a nested mapping holds the same render context as
\* the mapping that encloses it, also when the enclosing mapping gets its
\* context after construction.
C14_SharedContext ==
    \A p \in MapIds : \A k \in DOMAIN maps[p].data :
        maps[p].data[k].t = "map" =>
            maps[maps[p].data[k].id].context = maps[p].context

(***************************************************************************)
(* Properties of coercion and classification, checked under SpecPure.      *)
(***************************************************************************)

\* the boolean tokens the specification lists
ListedTrue  == {"true", "yes", "1", "on"}
ListedFalse == {"false", "no", "0", "off"}

\* the stripped text is one token of the list, compared case-insensitively
Listed(s, tokens) == Len(Strip(s)) = 1 /\ Lower(Strip(s)[1]) \in tokens

\* the stripped text is a literal structured value
IsLiteralText(s) == LiteralEval(Strip(s)).ok /\ LiteralEval(Strip(s)).v.t # "raise"

\* C8: a rendered text that differs from its source is stored as the parsed
\* literal if the stripped text is a literal structured value, otherwise as
\* a boolean if and only if it is one of true/false/yes/no/1/0/on/off
\* (case-insensitive), otherwise as the rendered string unchanged; no other
\* text becomes a non-string value.
C8_CoercionOrder ==
    cOut.f = "evaluate" =>
        cOut.v = IF IsLiteralText(cRend) THEN LiteralEval(Strip(cRend)).v
                 ELSE IF Listed(cRend, ListedTrue) THEN BoolV(TRUE)
                 ELSE IF Listed(cRend, ListedFalse) THEN BoolV(FALSE)
                 ELSE StrV(cRend)

\* C9: when the render of an unresolved entry gives exactly its source text,
\* the value stored and returned is that text as a plain string, whatever
\* the text would coerce to.
C9_InertKeepsText ==
    cOut.f = "coerce" /\ cRend = cOrig =>
        /\ cOut.v = StrV(cOrig)
        /\ maps[1].data["a"] = StrV(cOrig)

\* the inert text "1" stayed the string "1" although it reads as an integer
C9_Witness ==
    /\ cOut.f = "coerce" /\ cOrig = <<"1">> /\ cRend = <<"1">>
    /\ cOut.v = StrV(<<"1">>)
    /\ EvaluateString(cRend) = IntV(1)

\* v is a string in which "{" is followed at once by "{", "%" or "#"
HasStartMarker(v) ==
    /\ IsStr(v)
    /\ \E i \in 1..(Len(v.s) - 1) : v.s[i] = "{" /\ v.s[i + 1] \in {"{", "%", "#"}

\* the entry that a write of value v must leave, nested dicts apart
Classified(v) == IF HasStartMarker(v) THEN Unres(v.s) ELSE v

\* C10: _is_possibly_template(s) is true exactly if s is a string holding
\* one of the start markers {{, {% and {# as a substring; a write stores
\* such a string as an unresolved template and every other value as a
\* literal, a dict as a nested mapping whose entries are classified alike.
C10_Classifier ==
    /\ cOut.f = "classify" => cOut.v = BoolV(HasStartMarker(cVal))
    /\ cOut.f = "setitem" /\ cVal.t # "dict" => maps[1].data["a"] = Classified(cVal)
    /\ cOut.f = "setitem" /\ cVal.t = "dict" =>
          /\ maps[1].data["a"].t = "map"
          /\ DOMAIN maps[maps[1].data["a"].id].data = DOMAIN cVal.d
          /\ \A k \in DOMAIN cVal.d :
                maps[maps[1].data["a"].id].data[k] = Classified(cVal.d[k])

\* a string whose only marker is the comment start was written and is an
\* unresolved template
C10_Witness ==
    /\ cOut.f = "setitem"
    /\ cVal = StrV(<<"{", "#", "x", "#", "}">>)
    /\ maps[1].data["a"] = Unres(cVal.s)


(***************************************************************************)
(* Properties of a job, checked under SpecJob.                             *)
(***************************************************************************)

\* mapping m is the job's mapping or nested in it
OfTheJob(m) == m = 1 \/ \E key \in DOMAIN maps[1].data : maps[1].data[key] = MapV(m)

\* C4: within one job every render uses one render context and one lazy
\* mapping: at most one context exists, it resolves through the job's
\* mapping, and no mapping exists but those made when the job was
\* constructed.
C4_OneContext ==
    pc # "none" =>
        /\ Len(ctxs) <= 1
        /\ \A c \in 1..Len(ctxs) : ctxs[c].lazy_vars = 1
        /\ \A m \in 1..Len(maps) : OfTheJob(m)

\* the names a template text reads
TemplateNames(text) ==
    IF Compile(text).ok THEN SeqRange(NamesOf(Compile(text).nodes, 1, <<>>)) ELSE {}

\* the variables that the template stored under key of dict d names
RawRefs(d, key) ==
    IF IsPossiblyTemplate(d[key]) THEN TemplateNames(d[key].s) \cap DOMAIN d ELSE {}

RECURSIVE Closure(_, _)

\* S grown to T: done when nothing was added
CloseMore(d, S, T) == IF T = S THEN S ELSE Closure(d, T)

\* the variables that those of S name, directly or through others
Closure(d, S) == CloseMore(d, S, S \cup UNION { RawRefs(d, k) : k \in S })

\* the entries run() reads by name: skip rule, hooks, paths, flags, log line
JobReads ==
    {"__skip", "__pre_hook", "__post_hook", "__output", "__template", "__cwd",
     "__row", "__input", "__force", "__delete"}

\* the variables that the job, the template file, or a variable one of them
\* names, refers to
Referenced ==
    Closure(JobVars(job),
            (JobReads \cup TemplateNames(fs.tpl.text)) \cap DOMAIN JobVars(job))

\* C6: constructing the job renders nothing, and a variable that neither
\* the skip rule, the hooks, the paths nor the template file refers to is
\* never rendered during the job: it stays as constructed and no error of
\* it is raised.
C6_Lazy ==
    pc # "none" =>
        /\ pc = "skip" => calls = EmptyDict /\ ctxs = <<>>
        /\ \A key \in (DOMAIN maps[1].data) \ Referenced :
              /\ Cnt(calls, 1, key) = 0
              /\ <<1, key>> \notin failed
              /\ IsPossiblyTemplate(JobVars(job)[key]) => maps[1].data[key].t = "unres"


\* the names bound for a render of the job: its variables and the globals
JobBound == (DOMAIN JobVars(job)) \cup DOMAIN Globals

\* the names that the template file uses, and those used by the templates of
\* the variables it reads, directly or through other variables
NamesUsed ==
    TemplateNames(fs.tpl.text)
    \cup UNION { TemplateNames(JobVars(job)[k].s) :
                   k \in { v \in Closure(JobVars(job),
                                         TemplateNames(fs.tpl.text) \cap DOMAIN JobVars(job)) :
                             IsPossiblyTemplate(JobVars(job)[v]) } }

\* C13: if the template file, or a variable it reads, uses a name that is
\* bound nowhere, the render raises UndefinedError, the job ends failed with
\* no text rendered and the output path untouched, and a failed job takes
\* no further step; the name is never rendered as an empty string.
C13_StrictUndefined ==
    [][/\ pc # "failed"
       /\ (pc = "render" /\ ~(NamesUsed \subseteq JobBound)) =>
             /\ pc' = "failed"
             /\ jlog' = jlog \o <<[read |-> "template"], [error |-> "UndefinedError"]>>
             /\ rendered' = <<>>
             /\ fs' = fs
      ]_vars

\* the template {{ b }}-{{ row }} of a job without a variable b was read, the
\* render raised UndefinedError, and nothing is at the output path
C13_Witness ==
    /\ pc = "failed"
    /\ fs.tpl.text = V("b") \o <<"-">> \o V("row")
    /\ "b" \notin DOMAIN JobVars(job)
    /\ "c" \notin DOMAIN JobVars(job)
    /\ jlog[Len(jlog)] = [error |-> "UndefinedError"]
    /\ jlog[Len(jlog) - 1] = [read |-> "template"]
    /\ fs.out = "absent" /\ rendered = <<>>


\* the events that the step appends to the job's log
NewEvents == SubSeq(jlog', Len(jlog) + 1, Len(jlog'))

\* a hook subprocess is started in the step
HookStarts == \E i \in 1..Len(NewEvents) : "hook" \in DOMAIN NewEvents[i]

\* the template file is read in the step
TemplateRead == \E i \in 1..Len(NewEvents) : "read" \in DOMAIN NewEvents[i]

\* the steps of run() in their order, each one ending the job if it raises
StepOrder ==
    { <<"skip", "pre">>, <<"skip", "skipped">>, <<"pre", "render">>,
      <<"render", "write">>, <<"write", "post">>, <<"post", "delete">>,
      <<"delete", "done">> }
    \cup { <<p, "failed">> : p \in {"skip", "pre", "render", "write", "post", "delete"} }

\* C16: the steps of a job happen in the order skip rule, pre hook, template
\* read and render, existence check and write, post hook, delete: hooks
\* start only in the hook steps, the template file is read and rendered
\* only in the render step after the pre hook, the output is written only
\* in the write step, the post hook starts only with the output written,
\* and the output is removed only in the delete step after the post hook.
C16_StepOrder ==
    [][/\ <<pc, pc'>> \in StepOrder
       /\ jlog = SubSeq(jlog', 1, Len(jlog))
       /\ HookStarts => pc \in {"pre", "post"}
       /\ HookStarts /\ pc = "post" => fs.out = "file" /\ fs.text = rendered
       /\ TemplateRead \/ rendered' # rendered => pc = "render"
       /\ fs' # fs => \/ pc = "write" /\ fs'.out = "file"
                      \/ pc = "delete" /\ fs'.out = "absent"
      ]_vars

\* a job with both hooks and delete set is done: the pre hook ran, then the
\* template was read, then the post hook ran, and the output is removed
C16_Witness ==
    /\ pc = "done" /\ job.delete
    /\ Len(jlog) = 3
    /\ "hook" \in DOMAIN jlog[1] /\ jlog[1].rc = 0
    /\ jlog[2] = [read |-> "template"]
    /\ "hook" \in DOMAIN jlog[3] /\ jlog[3].hook # jlog[1].hook
    /\ rendered # <<>> /\ fs.out = "absent"

\* C17: a skipped job has no effects: when the skip rule is true the job
\* ends skipped in its first step, no hook was started, the template file
\* was not read, nothing was rendered, the output path is as the job found
\* it, and a skipped job takes no further step.
C17_SkippedNoEffects ==
    [][/\ pc # "skipped"
       /\ pc' = "skipped" =>
             /\ pc = "skip"
             /\ jlog' = <<>> /\ rendered' = <<>>
             /\ fs' = fs /\ fs \in Files
      ]_vars

\* a job with both hooks, an existing template file and a true skip rule
\* is skipped: no event is logged and nothing is at the output path
C17_Witness ==
    /\ pc = "skipped"
    /\ job.pre_hook # NoneV /\ job.post_hook # NoneV /\ job.delete
    /\ fs.tpl.exists /\ fs.tpl.text # <<>>
    /\ jlog = <<>> /\ rendered = <<>> /\ fs.out = "absent"

\* the value of the skip rule coerces to true
SkipTrue(v) ==
    \/ v = BoolV(TRUE)
    \/ v.t = "int" /\ v.n # 0
    \/ IsStr(v) /\ Len(v.s) = 1 /\ Lower(v.s[1]) \in {"y", "yes", "t", "true", "on", "1"}

\* the value of the skip rule coerces to false, or there is no rule
SkipFalse(v) ==
    \/ v \in {NoneV, BoolV(FALSE), IntV(0), StrV(<<>>)}
    \/ IsStr(v) /\ Len(v.s) = 1 /\ Lower(v.s[1]) \in {"n", "no", "f", "false", "off", "0"}

\* C18: a job is skipped if and only if a skip rule is configured and its
\* rendered value coerces to true; with no rule or a false value it goes on
\* to the pre hook.  The rule {{ row > 3 }} skips row 5 and runs row 2.
C18_SkipDecision ==
    [][pc = "skip" =>
          /\ pc' = "skipped" <=>
                job.skip # NoneV /\ SkipTrue(Entry(maps', 1, "__skip"))
          /\ pc' = "pre" <=> SkipFalse(Entry(maps', 1, "__skip"))
          /\ job.skip = SkipRow /\ job.row = 5 => pc' = "skipped"
          /\ job.skip = SkipRow /\ job.row = 2 => pc' = "pre"
      ]_vars

\* the rule {{ row > 3 }} was rendered in row 5 and the job is skipped
C18_Witness ==
    /\ pc = "skipped" /\ job.skip = SkipRow /\ job.row = 5
    /\ Entry(maps, 1, "__skip") = BoolV(TRUE)

\* C19: after the first failing step no later step of the job runs; if the
\* pre hook exits non-zero the job fails with a hook error, nothing is
\* rendered and the output path is untouched.
C19_FailureAborts ==
    [][/\ pc # "failed"
       /\ (pc = "pre" /\ HookStarts /\ NewEvents[1].rc # 0) =>
             /\ pc' = "failed"
             /\ jlog'[Len(jlog')] = [error |-> "HookRunError"]
             /\ rendered' = <<>> /\ fs' = fs
      ]_vars

\* C20: at the write step, an output path that is a directory, or a file
\* while force is unset, fails the job with an output error and is left as
\* it was; a path that does not exist, or a file with force set, is written:
\* its directory exists afterwards and the file holds the rendered text.
C20_OutputGuard ==
    [][pc = "write" =>
          IF fs.out = "dir" \/ (fs.out = "file" /\ ~job.force)
          THEN /\ pc' = "failed"
               /\ jlog'[Len(jlog')] = [error |-> "OutputError"]
               /\ fs' = fs
          ELSE /\ pc' = "post"
               /\ fs' = [fs EXCEPT !.parent = "dir", !.out = "file", !.text = rendered]
      ]_vars


(***************************************************************************)
(* Properties of job generation, checked under SpecGenerate.               *)
(***************************************************************************)

\* the columns of the sheet whose normalised name is nm
ColumnsOf(nm) ==
    { i \in 1..Len(fs.input.colnames) : ProcessHeader(fs.input.colnames[i]) = nm }

\* the value that the variable nm of the job of row i is to hold: the row's
\* (of the last column of that name), else the extra variable, else the
\* job's metadata
Precedence(nm, i) ==
    IF ColumnsOf(nm) # {}
    THEN fs.input.rows[i + 1][CHOOSE c \in ColumnsOf(nm) : \A e \in ColumnsOf(nm) : e <= c]
    ELSE IF nm \in DOMAIN fs.vars THEN fs.vars[nm]
    ELSE JobVars(NewJob(EmptyDict, i))[nm]

\* the entry of mapping 1 under nm is what construction makes of value v
EntryOf(mp, nm, v) ==
    IF v.t = "dict"
    THEN /\ mp[1].data[nm].t = "map"
         /\ mp[mp[1].data[nm].id].data = NewMapping(St0, v.d, 0).maps[1].data
    ELSE mp[1].data[nm] = Constructed(v)

\* C15: every data row yields a job, and in its mapping each name holds the
\* row's value if the row has a column of that normalised name, otherwise
\* the extra variable of that name, otherwise the job's metadata value.
C15_Precedence ==
    [][pc = "generate" /\ nops < Len(fs.input.rows) =>
          /\ pc' = "generate"
          /\ DOMAIN maps'[1].data
                = { ProcessHeader(fs.input.colnames[i]) : i \in 1..Len(fs.input.colnames) }
                  \cup (DOMAIN fs.vars) \cup DOMAIN JobVars(NewJob(EmptyDict, nops))
          /\ \A nm \in DOMAIN maps'[1].data : EntryOf(maps', nm, Precedence(nm, nops))
      ]_vars

\* the post hook of the job ran and ended with return code rc
PostHookEnded(rc) ==
    \E i \in 1..Len(jlog) :
        /\ "hook" \in DOMAIN jlog[i] /\ jlog[i].rc = rc
        /\ \E k \in 1..(i - 1) : "read" \in DOMAIN jlog[k]

\* C21: the written output file is removed only in the delete step of a job
\* with the delete flag, after its post hook (if it has one) ended with
\* return code 0; such a job is done with no file at its output path; a job
\* whose post hook fails ends as failed with the written file in place.
C21_DeleteAfterPostHook ==
    [][/\ fs.out = "file" /\ fs'.out = "absent" =>
              /\ pc = "delete" /\ pc' = "done" /\ job.delete
              /\ job.post_hook # NoneV => PostHookEnded(0)
              /\ ~PostHookEnded(1)
       /\ pc' = "done" /\ job.delete => fs'.out = "absent"
       /\ pc = "post" /\ pc' = "failed" =>
              /\ fs' = fs /\ fs.out = "file" /\ fs.text = rendered
       /\ pc = "failed" => fs' = fs
      ]_vars

\* a job with the delete flag and a post hook is done and its file is gone
C21_Witness ==
    /\ pc = "done" /\ job.delete /\ job.post_hook # NoneV
    /\ PostHookEnded(0) /\ fs.out = "absent" /\ fs.parent = "dir"

(***************************************************************************)
(* Properties of Jintaro.run, checked under SpecRun.                       *)
(***************************************************************************)

\* the last event of the run's log
LastEvent(lg) == lg[Len(lg)]

\* C22: without continue-on-error, a failed job makes Jintaro.run raise that
\* job's error in its next step with nothing else changed; a job is
\* constructed only at the start or when the job before it is done or
\* skipped; and once the run has raised no job is constructed or run.
C22_FailFast ==
    [][~fs.config.continue_on_error =>
          /\ pc = "failed" =>
                /\ pc' = "raised"
                /\ jlog' = jlog \o <<[raised |-> LastEvent(jlog).error]>>
                /\ UNCHANGED <<job, nops, fs, maps, rendered>>
          /\ nops' # nops => nops' = nops + 1 /\ pc \in {"generate", "done", "skipped"}
          /\ pc' = "skip" => nops' = nops + 1
          /\ pc # "raised"
      ]_vars

\* a sheet of three rows whose second row fails: the first job wrote its
\* output, the run raised the second job's error, no third job was made
C22_Witness ==
    /\ ~fs.config.continue_on_error /\ fs.inputs = <<ThreeRows>>
    /\ pc = "raised" /\ nops = 2 /\ job.row = 1
    /\ fs.out = "file"
    /\ LastEvent(jlog) = [raised |-> "UndefinedError"]
    /\ \E i \in 1..Len(jlog) : jlog[i] = [job |-> 1, file |-> 1, row |-> 0]
    /\ \A i \in 1..Len(jlog) : "job" \in DOMAIN jlog[i] => jlog[i].job <= 2

\* the events of the log that record a constructed job, in order
RECURSIVE JobEvents(_)
JobEvents(lg) ==
    IF Len(lg) = 0 THEN <<>>
    ELSE IF "job" \in DOMAIN lg[1] THEN <<lg[1]>> \o JobEvents(Tail(lg))
    ELSE JobEvents(Tail(lg))

\* the rows of the input files from file f on, in order, numbered from n on
RECURSIVE RowsInOrder(_, _, _, _)
RowsInOrder(inputs, f, i, n) ==
    IF f > Len(inputs) THEN <<>>
    ELSE IF i >= Len(inputs[f].rows) THEN RowsInOrder(inputs, f + 1, 0, n)
    ELSE <<[job |-> n, file |-> f, row |-> i]>> \o RowsInOrder(inputs, f, i + 1, n + 1)

\* C23: with continue-on-error, the error of a failed job is logged and the
\* loop goes on; Jintaro.run never raises; and when it has returned, the
\* jobs constructed are those of all data rows of all input files, one
\* each, in order.
C23_ContinueOnError ==
    [][fs.config.continue_on_error =>
          /\ pc = "failed" =>
                /\ pc' = "generate"
                /\ jlog' = jlog \o <<[logged |-> LastEvent(jlog).error]>>
          /\ pc' # "raised"
          /\ pc' = "returned" => JobEvents(jlog') = RowsInOrder(fs.inputs, 1, 0, 1)
      ]_vars

\* the positions of run() inside a job
InJob == {"skip", "pre", "render", "write", "post", "delete"}

\* s is a prefix of t
IsPrefix(s, t) == Len(s) <= Len(t) /\ s = SubSeq(t, 1, Len(s))

\* C24: the jobs constructed so far are the first rows of the input files
\* in the configured order and in sheet order; a job is constructed and
\* started only when the job before it is done, skipped or failed (its
\* error handled), and inside a job every step, with its hooks and its
\* output, belongs to the one job constructed last.
C24_Sequential ==
    [][/\ IsPrefix(JobEvents(jlog'), RowsInOrder(fs.inputs, 1, 0, 1))
       /\ Len(JobEvents(jlog')) = nops'
       /\ nops' # nops =>
              /\ nops' = nops + 1 /\ pc' = "skip"
              /\ pc \in {"generate", "done", "skipped"}
              /\ "job" \in DOMAIN LastEvent(jlog')
              /\ job'.row = LastEvent(jlog').row
       /\ pc' = "generate" => pc = "failed"
       /\ pc' = "skip" => nops' # nops
       /\ pc \in InJob =>
              /\ pc' \in InJob \cup {"done", "skipped", "failed"}
              /\ job' = job /\ nops' = nops
              /\ JobEvents(jlog') = JobEvents(jlog)
       /\ fs' # fs \/ HookStarts \/ TemplateRead => pc \in InJob
      ]_vars

\* the first row of the second file is about to run: the job of the first
\* file wrote its output and its post hook has ended
C24_Witness ==
    /\ fs.inputs = <<OneRow, ThreeRows>>
    /\ pc = "skip" /\ nops = 2 /\ job.row = 0
    /\ LastEvent(jlog) = [job |-> 2, file |-> 2, row |-> 0]
    /\ fs.out = "file"
    /\ \E i \in 1..Len(jlog) : "hook" \in DOMAIN jlog[i] /\ jlog[i].rc = 0

\* C25: every job is constructed with a mapping of its own in which nothing
\* is rendered yet, made from the row and the extra variables only, and no
\* step of a run changes the extra variables of the configuration, nested
\* values included.
C25_JobIsolation ==
    [][/\ fs'.config = fs.config
       /\ fs'.inputs = fs.inputs
       /\ nops' # nops =>
              /\ ctxs' = <<>> /\ calls' = EmptyDict /\ failed' = {}
              /\ rendered' = <<>>
              /\ \A nm \in DOMAIN job'.variables :
                    EntryOf(maps', nm, job'.variables[nm])
      ]_vars

(***************************************************************************)
(* Properties of _run_hook, checked under SpecHook.                        *)
(***************************************************************************)

\* the child is blocked in a write to a full pipe
ChildBlocked ==
    /\ fs.child = "running"
    /\ \E s \in {"stdout", "stderr"} : fs.left[s] > 0 /\ fs.pipe[s] = PipeCapacity
    /\ \A s \in {"stdout", "stderr"} : fs.left[s] > 0 => fs.pipe[s] = PipeCapacity

\* C26: _run_hook comes to its end, returning or raising the hook error,
\* with all that the child wrote to stdout and stderr read; the parent is
\* never waiting for the child's exit while the child is blocked in a write
\* to a full pipe.
C26_HookCompletes ==
    /\ <>(pc \in {"returned", "raised"})
    /\ [](pc \in {"returned", "raised"} => fs.read = fs.total)
    /\ [](~(pc = "wait" /\ ChildBlocked))

(***************************************************************************)
(* Properties of process_header, checked under SpecHeader.                 *)
(***************************************************************************)

\* the characters of the header that are neither letter nor underscore once
\* lower-cased and replaced, counted from the start
RECURSIVE Leading(_, _)
Leading(h, i) ==
    IF i > Len(h) THEN 0
    ELSE IF h[i] \in {"a", "B", "_", " ", "-"} THEN 0
    ELSE 1 + Leading(h, i + 1)

\* the normalised character of ch: lower case, invalid ones as underscore
Normal(ch) ==
    IF ch = "B" THEN "b" ELSE IF ch \in {" ", "-"} THEN "_" ELSE ch

\* The claim as stated: the name is the lower-cased header with every run of
\* characters outside [0-9a-zA-Z_] replaced by a single underscore and the
\* leading characters that are neither letter nor underscore stripped.
C27_RunsCollapsed ==
    cOut.f = "header" => cOut.v = ProcessHeaderRuns(cOrig)

\* C27: the name is the lower-cased header with every single character
\* outside [0-9a-zA-Z_] replaced by an underscore, so that a run of n such
\* characters gives n underscores, and with the leading characters that are
\* neither letter nor underscore stripped.
C27_EachReplaced ==
    cOut.f = "header" =>
        cOut.v = JoinChars([i \in 1..(Len(cOrig) - Leading(cOrig, 1)) |->
                               Normal(cOrig[i + Leading(cOrig, 1)])])

\* the header "B -" was normalised to "b__": the letter is lower-cased and
\* each of the two other characters is an underscore
C27_Witness ==
    /\ cOut.f = "header"
    /\ cOrig = <<"B", " ", "-">>
    /\ cOut.v = "b__"

(***************************************************************************)
(* Properties of the header check, checked under SpecGenerate.             *)
(***************************************************************************)

\* C28: a sheet without header row, or with a column whose name normalises
\* to the empty string, is rejected with InputListError and no job is
\* constructed for it; for every other sheet a data row yields its job or
\* merge_dicts raises, and no variable of a job has the empty name.
C28_HeaderRequired ==
    [][pc = "generate" =>
          IF HeaderMissingOrEmpty(fs.input.colnames)
          THEN /\ pc' = "failed"
               /\ jlog' = <<[error |-> "InputListError"]>>
               /\ nops' = nops /\ maps' = maps
          ELSE /\ pc' = "failed" => jlog' # <<[error |-> "InputListError"]>>
               /\ pc' = "generate" => "" \notin DOMAIN job'.variables
      ]_vars

(***************************************************************************)
(* Properties of merge_dicts, checked under SpecMerge.                     *)
(***************************************************************************)

\* the merge of dicts x and y in which y wins: a key of both carries y's
\* value, merged recursively when both values are dicts
RECURSIVE YWins(_, _)
YWins(x, y) ==
    [key \in (DOMAIN x) \cup DOMAIN y |->
        IF key \notin DOMAIN y THEN x[key]
        ELSE IF key \notin DOMAIN x THEN y[key]
        ELSE IF x[key].t = "dict" /\ y[key].t = "dict" THEN DictV(YWins(x[key].d, y[key].d))
        ELSE y[key]]

\* C29: merge_dicts(x, y) does not raise and returns the dict with every key
\* of both in which a key of both carries y's value, merged recursively
\* when both values are dicts, whatever the kinds of the two values.
C29_MergeYWins ==
    cOut.f = "merge" => cOut.v = DictV(YWins(cOrig, cRend))

(***************************************************************************)
(* Properties of val_to_row_column, checked under SpecPosition.            *)
(***************************************************************************)

\* C30: a string "r,c" of two non-negative integers is converted to [r, c],
\* the column being the number after the comma; a list [r, c] to [r, c];
\* a single number r to [r, 0].
C30_RowColumn ==
    cOut.f = "position" =>
        /\ cVal.t = "str" =>
              \A i \in 1..Len(cVal.s) :
                  /\ cVal.s[i] = ","
                  /\ AllDigits(SubSeq(cVal.s, 1, i - 1))
                  /\ AllDigits(SubSeq(cVal.s, i + 1, Len(cVal.s)))
                  => cOut.v = ListV(<<IntV(IntOf(SubSeq(cVal.s, 1, i - 1))),
                                      IntV(IntOf(SubSeq(cVal.s, i + 1, Len(cVal.s))))>>)
        /\ cVal.t = "list" /\ Len(cVal.l) = 2 => cOut.v = cVal
        /\ cVal.t = "int" => cOut.v = ListV(<<cVal, IntV(0)>>)

\* the entries whose render raised in the step: the key of the call, if the
\* call raised on an entry, and every entry that failed for the first time
RaisedIn(op, was, now) ==
    (now \ was) \cup
    (IF op.err # "" /\ op.key \in DOMAIN maps[op.m].data THEN {<<op.m, op.key>>} ELSE {})

\* C31: a read (mapping[key] or key in mapping) during which the render of
\* an unresolved entry raises leaves that entry an unresolved template with
\* its original source text, changes no entry that was already resolved,
\* and a later read of an entry that failed before invokes the engine on it
\* again.
C31_FailedReadKeepsState ==
    [][lastOp'.op \in {"read", "in"} =>
         /\ \A p \in RaisedIn(lastOp', failed, failed') :
               /\ maps[p[1]].data[p[2]].t = "unres"
               /\ maps'[p[1]].data[p[2]] = maps[p[1]].data[p[2]]
         /\ lastOp'.err # "" =>
               \A m \in MapIds : \A k \in DOMAIN maps[m].data :
                   maps[m].data[k].t # "unres" => maps'[m].data[k] = maps[m].data[k]
         /\ ( /\ <<lastOp'.m, lastOp'.key>> \in failed
              /\ Entry(maps, lastOp'.m, lastOp'.key).t = "unres" )
            => Cnt(calls', lastOp'.m, lastOp'.key) > Cnt(calls, lastOp'.m, lastOp'.key)
      ]_vars

\* a = "{{ z }}{{ b }}" was read twice: both reads raised UndefinedError for
\* z, the engine ran twice on a, a still holds its source text, and b, which
\* the first read resolved to 10, kept that value
C31_Witness ==
    /\ lastOp.op = "read" /\ lastOp.m = 1 /\ lastOp.key = "a"
    /\ lastOp.err = "UndefinedError"
    /\ Cnt(calls, 1, "a") = 2
    /\ Entry(maps, 1, "a") = Unres(V("z") \o V("b"))
    /\ Entry(maps, 1, "b") = IntV(10)
    /\ Cnt(calls, 1, "b") = 1

\* a mapping that holds the values vs as they are, with no value classified
\* again, and a context on it
LiteralContext(st, vs) ==
    [NewContext([st EXCEPT !.maps = Append(@, [data |-> vs, context |-> 0])],
                Globals, Len(st.maps) + 1)
        EXCEPT !.maps[Len(st.maps) + 1].context = Len(st.ctxs) + 1]

\* the template rendered with the values r of the job's variables as literals
LiteralIn(r, nodes) ==
    IF r.err # "" THEN [st |-> r.st, out |-> <<>>, err |-> r.err]
    ELSE RootRender(LiteralContext(r.st, r.val), Len(r.st.ctxs) + 1, nodes, 0)

RenderLiteral(st, template) ==
    IF template = <<>> THEN [st |-> st, out |-> template, err |-> ""]
    ELSE IF ~Compile(template).ok
         THEN [st |-> st, out |-> <<>>, err |-> "TemplateSyntaxError"]
    ELSE LiteralIn(ReadAll(st, 1, Keys(st.maps[1].data), 1, EmptyDict),
                   Compile(template).nodes)

\* the hook commands that were started, in order
HookCommands(lg) == SelectSeq(lg, LAMBDA e : "hook" \in DOMAIN e)

\* C32: within a job every variable is resolved in a single pass: no entry
\* of the job's mapping is rendered twice, a hook is started with the
\* resolved value of its variable as it is stored, and the template file is
\* rendered with every variable bound to its resolved value as a literal,
\* also when that value holds {{, {% or {#.
C32_SinglePass ==
    [][/\ \A key \in DOMAIN maps'[1].data :
             <<1, key>> \notin failed' => Cnt(calls', 1, key) <= 1
       /\ \A i \in 1..Len(HookCommands(jlog')) :
             /\ IsStr(HookCommands(jlog')[i].hook)
             /\ HookCommands(jlog')[i].hook \in
                   {maps'[1].data["__pre_hook"], maps'[1].data["__post_hook"]}
       /\ (pc = "render" /\ pc' = "write") =>
             rendered' = RenderLiteral(Store, fs.tpl.text).out
      ]_vars

\* C32 restricted to the jobs none of whose variables resolves to text with
\* a start marker
C32_SinglePassPlain ==
    [][(pc = "render" /\ pc' = "write" /\ job.variables["r"] # StrV(RawOf(V("a")))) =>
             rendered' = RenderLiteral(Store, fs.tpl.text).out
      ]_vars

\* the variable r = "{% raw %}{{a}}{% endraw %}" resolved to the text {{a}},
\* and the template file {{r}} was rendered to 5
C32_Reinterpreted ==
    /\ pc = "write"
    /\ job.variables["r"] = StrV(RawOf(V("a")))
    /\ maps[1].data["r"] = StrV(V("a"))
    /\ fs.tpl.text = V("r")
    /\ rendered = <<"5">>

\* name nm is bound in neither the locals nor the parent scope of context c
\* nor in its lazy mapping
Unbound(c, nm) ==
    /\ nm \notin DOMAIN ctxs[c].vars
    /\ nm \notin DOMAIN ctxs[c].parent
    /\ nm \notin DOMAIN maps[ctxs[c].lazy_vars].data

\* C33: `key in mapping` raises nothing, is true exactly for the keys that
\* have an entry, and renders nothing: no stored value and no render count
\* changes; and resolve_or_missing returns the marker `missing` for a name
\* that is bound in neither the locals, the parent scope nor the lazy mapping.
C33_Membership ==
    [][/\ lastOp'.op = "in" =>
            /\ lastOp'.err = ""
            /\ lastOp'.val = (lastOp'.key \in DOMAIN maps[lastOp'.m].data)
            /\ maps' = maps /\ calls' = calls
       /\ \A c \in 1..Len(ctxs) :
            Unbound(c, MissingKey) => ResolveOrMissing(Store, c, MissingKey, 0).val = MissingV
      ]_vars

\* the input path cannot be read as a sheet: it is missing, it is not a
\* file, or its content is not of the kind its suffix announces
Unusable(path) ==
    \/ path.file \in {"absent", "dir"}
    \/ (path.suffix \in {".ods", ".xlsx"}) # (path.file = "binary")

\* the number of data rows of the first f input files
RECURSIVE RowsUpTo(_, _)
RowsUpTo(inputs, f) ==
    IF f = 0 THEN 0 ELSE RowsUpTo(inputs, f - 1) + Len(inputs[f].rows)

\* file f is the first input file without a header row
FirstHeaderless(inputs, f) ==
    /\ Len(inputs[f].colnames) = 0
    /\ \A g \in 1..(f - 1) : Len(inputs[g].colnames) # 0

\* C34: whatever continue-on-error says, an unusable input file makes
\* Jintaro.run raise before any job is constructed, and a sheet without a
\* header row makes it raise InputListError when exactly the jobs of the
\* files before it have been constructed and have ended; with
\* continue-on-error the run raises at no other point than the production
\* of the next job, and the error of a job's run is logged and the loop goes
\* on.
C34_InputErrorsPropagate ==
    [][/\ (\E f \in 1..Len(fs.inputs) : Unusable(fs.inputs[f])) =>
            /\ nops' = 0
            /\ pc = "generate" => pc' = "raised" /\ LastEvent(jlog').raised \in {"FileNotFoundError", "OSError"}
       /\ \A f \in 1..Len(fs.inputs) :
            ( /\ \A g \in 1..Len(fs.inputs) : ~Unusable(fs.inputs[g])
              /\ FirstHeaderless(fs.inputs, f) ) =>
                /\ nops' <= RowsUpTo(fs.inputs, f - 1)
                /\ ( /\ pc \in {"generate", "done", "skipped"}
                     /\ nops = RowsUpTo(fs.inputs, f - 1) )
                   => pc' = "raised" /\ LastEvent(jlog').raised = "InputListError"
                /\ (pc' = "raised" /\ LastEvent(jlog').raised = "InputListError")
                   => nops = RowsUpTo(fs.inputs, f - 1) /\ pc \in {"generate", "done", "skipped"}
       /\ fs.config.continue_on_error =>
            /\ pc' = "raised" => pc \in {"generate", "done", "skipped"}
            /\ pc = "failed" =>
                  pc' = "generate" /\ jlog' = jlog \o <<[logged |-> LastEvent(jlog).error]>>
      ]_vars

\* with continue-on-error, the one job of the first file has run, and the
\* run was ended by the InputListError of the second file, which has no
\* header row
C34_Witness ==
    /\ fs.config.continue_on_error
    /\ fs.inputs = <<OneRow, NoHeader, OneRow>>
    /\ pc = "raised" /\ nops = 1
    /\ LastEvent(jlog) = [raised |-> "InputListError"]
    /\ fs.out = "file"

\* with continue-on-error, the second input path is a directory: the run
\* was ended by OSError before any job was constructed
C34_WitnessFile ==
    /\ fs.config.continue_on_error
    /\ fs.inputs = <<OneRow, InputPath(".csv", "dir")>>
    /\ pc = "raised" /\ nops = 0
    /\ jlog = <<[raised |-> "OSError"]>>

\* the first of the four values that is not None
FirstSet(a, e, f, d) ==
    IF a # NoneV THEN a ELSE IF e # NoneV THEN e ELSE IF f # NoneV THEN f ELSE d

\* the built-in default of an option
BuiltIn(option) ==
    CASE option \in {"force", "delete"} -> BoolV(FALSE)
      [] option = "csv_delimiter" -> StrV(<<",">>)
      [] option = "header_row_column" -> ListV(<<IntV(0), IntV(0)>>)
      [] OTHER -> NoneV

\* the environment variable of an option
EnvName(option) ==
    CASE option = "input" -> "JINTARO_INPUT"
      [] option = "template" -> "JINTARO_TEMPLATE"
      [] option = "output" -> "JINTARO_OUTPUT"
      [] option = "force" -> "JINTARO_FORCE"
      [] option = "delete" -> "JINTARO_DELETE"
      [] option = "pre_hook" -> "JINTARO_PRE_HOOK"
      [] option = "post_hook" -> "JINTARO_POST_HOOK"
      [] option = "csv_delimiter" -> "JINTARO_CSV_DELIMITER"
      [] option = "skip" -> "JINTARO_SKIP"
      [] option = "header_row_column" -> "JINTARO_HEADER_ROW_COLUMN"

PrecedenceOptions ==
    {"input", "template", "output", "force", "delete", "pre_hook", "post_hook",
     "csv_delimiter", "skip", "header_row_column"}

\* the configuration has been merged and validated
HasConfig == pc \in {"generate", "loaded", "skip", "returned"} /\ DOMAIN fs.config # {}

\* C35: in the merged configuration each of the options input, template,
\* output, force, delete, pre_hook, post_hook, csv_delimiter, skip and
\* header_row_column holds the first value that is not None of: the API's
\* setting, the environment variable, the configuration file's value, the
\* built-in default; so False from a source of higher priority overrides
\* True from a lower one.
C35_ConfigPrecedence ==
    HasConfig =>
        \A option \in PrecedenceOptions :
            fs.config[option] =
                FirstSet(SourceGet(fs.api, option),
                         SourceGet(EnvironmentConfigSource(fs.environ).config, EnvName(option)),
                         SourceGet(FileConfigSource(fs.api.config_path, fs.file).config, option),
                         BuiltIn(option))

\* the API set force to False and the environment sets JINTARO_FORCE=true
\* and JINTARO_CSV_DELIMITER=";": the merged configuration has force False,
\* the API's delimiter, and the environment's template
C35_Witness ==
    /\ HasConfig
    /\ fs.api.force = BoolV(FALSE)
    /\ SourceGet(fs.environ, "JINTARO_FORCE") = StrV(<<"true">>)
    /\ fs.config.force = BoolV(FALSE)
    /\ fs.config.csv_delimiter = StrV(<<"-">>)
    /\ fs.config.template = StrV(<<"et">>)
    /\ fs.config.input = ListV(<<StrV(<<"in.csv">>), StrV(<<"b.csv">>)>>)

\* the first sheet has been loaded
SheetLoaded == pc \in {"loaded", "skip", "returned"} /\ DOMAIN fs.loaded # {}

\* C36: with the header position (row, column) of the merged configuration,
\* the sheet is loaded with start_row = row and start_column = column.
C36_HeaderPosition ==
    SheetLoaded =>
        /\ fs.loaded.start_row = fs.config.header_row_column.l[1]
        /\ fs.loaded.start_column = fs.config.header_row_column.l[2]

\* C37: when the path of the configuration file was never set, a run whose
\* configuration is valid and whose sheet has a header row and a data row
\* constructs the job of that row: job construction does not raise for want
\* of the path.
C37_NoConfigFileNeeded ==
    [][( /\ pc = "loaded"
         /\ fs.api.config_path = NoneV
         /\ Len(fs.sheet.colnames) > 0 /\ Len(fs.sheet.rows) > 0 )
        => pc' = "skip" /\ jlog' = jlog
      ]_vars

\* neither the API nor the configuration file supplies extra variables
NoExtraVars ==
    /\ fs.api.vars = NoneV
    /\ SourceGet(FileConfigSource(fs.api.config_path, fs.file).config, "vars") = NoneV

\* C38: when neither the API nor the configuration file supplies extra
\* variables, the validator does not reject the option vars, and the merged
\* configuration holds None or a mapping as vars.
C38_VarsDefault ==
    NoExtraVars =>
        /\ pc = "raised" => "vars" \notin LastEvent(jlog).options
        /\ HasConfig => fs.config.vars.t \in {"none", "dict"}

\* the paths of an input list, none if there is no list
PathsOf(v) == IF v = NoneV THEN <<>> ELSE v.l

\* the paths that input(path) is to add
Added(path) ==
    IF path.t = "list" THEN [i \in 1..Len(path.l) |-> AsPath(path.l[i])]
    ELSE <<AsPath(path)>>

\* C39: on every Jintaro instance, a fresh one and one whose inputs were
\* just cleared included, input(path) raises nothing, returns the instance
\* and appends the given path, or every path of the given list, as Path to
\* the accumulated inputs; input(clear=True) empties them; and input()
\* returns the accumulated inputs and changes nothing.
C39_AccumulatingInputs ==
    [][lastOp'.op = "input" =>
          /\ lastOp'.err = ""
          /\ (~lastOp'.clear /\ lastOp'.path # NoneV) =>
                /\ lastOp'.val = SelfV
                /\ PathsOf(fs'.api.input) = PathsOf(fs.api.input) \o Added(lastOp'.path)
          /\ lastOp'.clear => PathsOf(fs'.api.input) = <<>>
          /\ (~lastOp'.clear /\ lastOp'.path = NoneV) =>
                /\ PathsOf(lastOp'.val) = PathsOf(fs.api.input)
                /\ fs' = fs
      ]_vars

=============================================================================
